---- MODULE Spec2Model ----
(***************************************************************************)
(* cloudsync: bidirectional save-file synchronisation between one local    *)
(* directory and an S3 bucket.                                             *)
(*                                                                         *)
(* Two implementations live in the repository and both are modelled:       *)
(*   - the packages watcher / sync / storage (FileWatcher, Syncer,         *)
(*     S3Client), and                                                      *)
(*   - the single-file program main.go (main, checkCloudAndSync,           *)
(*     syncFromCloud, backupAndReplace, backupAndUpload).                  *)
(*                                                                         *)
(* Time is counted in ticks of 500ms: timeTolerance (500ms) is 1 tick,     *)
(* eventCooldown (1s) is 2 ticks, the periodic timer (10s) is 20 ticks.    *)
(***************************************************************************)
EXTENDS Integers, Sequences, FiniteSets, TLC

(***************************************************************************)
(* Bounds of the model.                                                    *)
(***************************************************************************)
MaxWatchTime == 4

InitTime == 2

MaxEnv == 1

MaxOps == 2

MaxLoopTime == 26

MaxContent == 2

MaxBackups == 2

MaxFaults == 1

\* ticks that are followed one by one after the start of the loop
MaxIdle == 3

\* the latest modification time of a file that makes the round trip
MaxStamp == 11

\* events, errors and timer expiries that arrive at the loop
MaxArrivals == 4

\* the length of a Modtime metadata text
MaxMetaLen == 2

\* the length of a configured process name
MaxGuardName == 2

(***************************************************************************)
(* Program constants (in ticks of 500ms).                                  *)
(***************************************************************************)
timeTolerance == 1

eventCooldown == 2

syncInterval == 20

(***************************************************************************)
(* Names and paths.  A file name is a sequence of tokens, the last token   *)
(* being its extension ("game.sav" is <<"game", ".sav">>).  A path is the  *)
(* sequence of its components below the filesystem root; a trailing        *)
(* separator shows as a final empty component ("/w/" is <<W, <<>>>>).      *)
(***************************************************************************)
GameSav == <<"game", ".sav">>

SlotSav == <<"slot", ".sav">>

SettingsSav == <<"EnhancedInputUserSettings", ".sav">>

GameTxt == <<"game", ".txt">>

WDir == <<"w">>

BackupName == <<"Backup">>

StampName == <<"2006-01-02_15-04-05.000001">>

watchPath == <<WDir, <<>>>>

\* strings.HasSuffix(name, suffix), on token level
HasSuffix(name, suffix) == Len(name) > 0 /\ name[Len(name)] = suffix

\* the components of a path that are neither empty nor "."
RECURSIVE CleanComponents(_)
CleanComponents(p) ==
    IF p = <<>> THEN <<>>
    ELSE IF Head(p) = <<>> \/ Head(p) = <<".">>
         THEN CleanComponents(Tail(p))
         ELSE <<Head(p)>> \o CleanComponents(Tail(p))

\* filepath.Clean
Clean(p) == CleanComponents(p)

\* filepath.Base: the last element of the path, trailing separators removed
Base(p) == LET c == Clean(p) IN IF c = <<>> THEN <<>> ELSE c[Len(c)]

\* filepath.Dir: all but the last element of the path, cleaned
\* (trailing separators are not removed before the split)
Dir(p) == IF p = <<>> THEN <<>> ELSE Clean(SubSeq(p, 1, Len(p) - 1))

\* filepath.Join
Join(dir, name) == Clean(dir \o <<name>>)

\* the candidate predicate of the watcher package
shouldSyncFile(filePath) ==
    LET name == Base(filePath)
    IN  HasSuffix(name, ".sav") /\ name # SettingsSav

\* the candidate predicate of the sync package
syncShouldSyncFile(filePath) ==
    LET name == Base(filePath)
    IN  HasSuffix(name, ".sav") /\ name # SettingsSav

\* the candidate predicate of main.go
mainShouldSyncFile_anysav(filePath) ==
    LET name == Base(filePath)
    IN  HasSuffix(name, ".sav")

mainShouldSyncFile(filePath) ==
    LET name == Base(filePath)
    IN  HasSuffix(name, ".sav") /\ name # SettingsSav

(***************************************************************************)
(* Decimal strings: fmt.Sprintf("%d", n) and strconv.ParseInt(s, 10, 64),  *)
(* a string being a sequence of characters.                                *)
(***************************************************************************)
Digits == <<"0", "1", "2", "3", "4", "5", "6", "7", "8", "9">>

DigitValue(c) == CHOOSE d \in 0..9 : Digits[d + 1] = c

IsDigit(c) == \E d \in 0..9 : Digits[d + 1] = c

RECURSIVE FormatInt(_)
FormatInt(n) ==
    IF n < 10 THEN <<Digits[n + 1]>>
    ELSE FormatInt(n \div 10) \o <<Digits[(n % 10) + 1]>>

\* the value of a digit string; -1 stands for the parse error
RECURSIVE ParseDigits(_, _)
ParseDigits(s, acc) ==
    IF s = <<>> THEN acc
    ELSE IF ~IsDigit(Head(s)) THEN -1
    ELSE ParseDigits(Tail(s), acc * 10 + DigitValue(Head(s)))

\* strconv.ParseInt(s, 10, 64): an optional sign, then one digit or more
ParseInt(s) ==
    LET signed == s # <<>> /\ Head(s) \in {"+", "-"}
        digits == IF signed THEN Tail(s) ELSE s
        n == ParseDigits(digits, 0)
    IN  IF digits = <<>> \/ n = -1 THEN [err |-> TRUE, val |-> 0]
        ELSE [err |-> FALSE, val |-> IF signed /\ Head(s) = "-" THEN 0 - n ELSE n]

(***************************************************************************)
(* A time.Time: the instant and the location it is presented in.  The      *)
(* engine compares instants only.                                          *)
(***************************************************************************)
\* time.Unix(0, ts): the local Time of the instant
Unix(ts) == [ns |-> ts, loc |-> "Local"]

\* Time.UTC
UTC(t) == [t EXCEPT !.loc = "UTC"]

(***************************************************************************)
(* Files, objects and snapshots.                                           *)
(***************************************************************************)
SyncNames == {GameSav, SlotSav}

\* the content of a file cut short by a failed write
Partial == 0

Contents == 1..MaxContent

NoFile == [exists |-> FALSE, content |-> 0, mtime |-> 0]

File(c, t) == [exists |-> TRUE, content |-> c, mtime |-> t]

\* a remote object: content, the Modtime user metadata (a string, empty when
\* absent) and the store's own last-modified time
NoObject == [exists |-> FALSE, content |-> 0, meta |-> <<>>, lastModified |-> 0,
             zone |-> "UTC"]

Object(c, m, lm) ==
    [exists |-> TRUE, content |-> c, meta |-> m, lastModified |-> lm, zone |-> "UTC"]

TmpSuffixes == {".download", ".cloud"}

TmpNames == SyncNames \X TmpSuffixes

\* content of an absent temporary file
NoTmp == -1

(***************************************************************************)
(* Failures of the collaborators (filesystem, clock, object store) that an *)
(* operation meets: a set of [phase, name, kind], at most MaxFaults of     *)
(* them per operation.  phase tells the two steps of a reconciliation      *)
(* pass apart.                                                             *)
(***************************************************************************)
FaultKinds == {"stat", "upload", "download", "mkdir", "clock", "bcopy",
               "bcopypartial", "rcopy", "rcopypartial", "chtimes"}

Phases == {"local", "remote"}

FaultsOf(phases, names) == [phase : phases, name : names, kind : FaultKinds]

RECURSIVE SubsetsUpTo(_, _)
SubsetsUpTo(S, k) ==
    IF k = 0 THEN {{}}
    ELSE LET smaller == SubsetsUpTo(S, k - 1)
         IN  smaller \cup {T \cup {x} : T \in smaller, x \in S}

FaultPlans(phases, names) == SubsetsUpTo(FaultsOf(phases, names), MaxFaults)

Fails(F, ph, name, kind) == [phase |-> ph, name |-> name, kind |-> kind] \in F

(***************************************************************************)
(* State.                                                                  *)
(***************************************************************************)
VARIABLES
    now,            \* wall clock, in ticks
    lastEventTime,  \* FileWatcher.lastEventTime: path -> time, -1 = not seen
    verdict,        \* the last ShouldProcess call and its result
    lastAccept,     \* history: path -> time of its last accepted trigger
    local,          \* the files of the watch directory: name -> file
    remote,         \* the objects of the bucket: name -> object
    backups,        \* the snapshot directories of the backup root, oldest first
    tmp,            \* the temporary files: <<name, suffix>> -> content
    lastOp,         \* history: the last sync operation, the state it started
                    \* from and the log of its steps
    replaced,       \* history: the contents of local files that a sync
                    \* operation has replaced
    envSteps,       \* history: the number of changes made by the environment
    opSteps,        \* history: the number of sync operations run
    pc,             \* main: "start" before the initial sync, then "select"
    timerStart,     \* main: the time at which the pending time.After began
    processName,    \* the configured process name, a string of characters
    procs,          \* the process list of the machine, or its failure
    loopOp,         \* history: the last iteration of the loop of main
    idleSince,      \* history: the time since which the loop waits with the
                    \* guard reporting not running and no pass started,
                    \* -1 = the loop does not run or the process runs
    probe,          \* a path and what the candidate predicates say of it
    boot,           \* the command line, the configuration loaded from it
                    \* and how far startup got
    mux             \* the select statement of main: what waits on the
                    \* channels, and the order in which the cases were taken

wvars == <<now, lastEventTime, verdict, lastAccept>>

svars == <<local, remote, backups, tmp, lastOp, replaced, envSteps, opSteps>>

lvars == <<pc, timerStart, processName, procs, loopOp, idleSince>>

pvars == <<probe, boot, mux>>

vars == <<now, lastEventTime, verdict, lastAccept, local, remote, backups, tmp, lastOp,
         replaced, envSteps, opSteps, pc, timerStart, processName, procs,
         loopOp, idleSince, probe, boot, mux>>

(***************************************************************************)
(* Events of the notification facility.                                    *)
(***************************************************************************)
EventPaths ==
    { <<WDir, GameSav>>, <<WDir, SlotSav>>, <<WDir, SettingsSav>>,
      <<WDir, GameTxt>>, <<WDir, BackupName, StampName, GameSav>> }

\* fsnotify.Op is a bit set
EventOps == { {"Create"}, {"Write"}, {"Remove"}, {"Rename"}, {"Chmod"},
              {"Write", "Chmod"} }

Events == [Name : EventPaths, Op : EventOps]

\* the events that reach the loop of main: every path, with an operation set
\* of each kind (a create, no write or create, a write among others)
LoopEvents == [Name : EventPaths, Op : {{"Create"}, {"Remove"}, {"Write", "Chmod"}}]

NoLast == [impl |-> "none", act |-> "none", name |-> <<>>,
           local |-> [n \in SyncNames |-> NoFile],
           remote |-> [n \in SyncNames |-> NoObject],
           backups |-> <<>>, log |-> <<>>, err |-> FALSE]

NoLoopOp == [kind |-> "none", running |-> FALSE, accepted |-> FALSE,
             started |-> FALSE]

NoProbe == [asked |-> FALSE, path |-> <<>>, watcher |-> FALSE, syncer |-> FALSE,
            main |-> FALSE]

NoBoot == [stage |-> "none"]

NoMux == [at |-> "none"]

NoVerdict == [called |-> FALSE, Name |-> <<>>, Op |-> {}, at |-> 0,
              prior |-> -1, result |-> FALSE]

\* the three checks of ShouldProcess that precede the cooldown check
PassesFilters_anydirectory(event) ==
    /\ event.Op \cap {"Write", "Create"} # {}
    /\ shouldSyncFile(event.Name)

PassesFilters(event) ==
    /\ event.Op \cap {"Write", "Create"} # {}
    /\ shouldSyncFile(event.Name)
    /\ Dir(event.Name) = Clean(watchPath)

CooldownBlocks_inclusive(last, t) == last # -1 /\ t - last < eventCooldown

\* seen && now.Sub(last) <= fw.eventCooldown
CooldownBlocks(last, t) == last # -1 /\ t - last <= eventCooldown

\* FileWatcher.ShouldProcess
ShouldProcessResult(event, let, t) ==
    /\ PassesFilters(event)
    /\ ~CooldownBlocks(let[event.Name], t)

ShouldProcess(event) ==
    LET res == ShouldProcessResult(event, lastEventTime, now)
    IN  /\ lastEventTime' =
              IF res THEN [lastEventTime EXCEPT ![event.Name] = now]
                     ELSE lastEventTime
        /\ verdict' = [called |-> TRUE, Name |-> event.Name, Op |-> event.Op,
                       at |-> now, prior |-> lastAccept[event.Name],
                       result |-> res]
        /\ lastAccept' =
              IF res THEN [lastAccept EXCEPT ![event.Name] = now]
                     ELSE lastAccept
        /\ UNCHANGED now
        /\ UNCHANGED svars
        /\ UNCHANGED lvars
        /\ UNCHANGED pvars

\* time passes
Tick(limit) ==
    /\ now < limit
    /\ now' = now + 1

WatcherTick ==
    /\ Tick(MaxWatchTime)
    /\ UNCHANGED <<lastEventTime, verdict, lastAccept>>
    /\ UNCHANGED svars
    /\ UNCHANGED lvars
    /\ UNCHANGED pvars

WatcherInit ==
    /\ now = 0
    /\ lastEventTime = [p \in EventPaths |-> -1]
    /\ verdict = NoVerdict
    /\ lastAccept = [p \in EventPaths |-> -1]
    /\ local = [n \in SyncNames |-> NoFile]
    /\ remote = [n \in SyncNames |-> NoObject]
    /\ backups = <<>>
    /\ tmp = [x \in TmpNames |-> NoTmp]
    /\ lastOp = NoLast
    /\ replaced = {}
    /\ envSteps = 0
    /\ opSteps = 0
    /\ pc = "start"
    /\ timerStart = 0
    /\ processName = <<>>
    /\ procs = [ok |-> TRUE, names |-> {}]
    /\ loopOp = NoLoopOp
    /\ idleSince = -1
    /\ probe = NoProbe
    /\ boot = NoBoot
    /\ mux = NoMux

WatcherNext ==
    \/ \E event \in Events : ShouldProcess(event)
    \/ WatcherTick

SpecWatcher == WatcherInit /\ [][WatcherNext]_vars

(***************************************************************************)
(* C8: an event that passes the operation, candidate and directory checks  *)
(* is accepted iff no trigger for its path was accepted before, or the     *)
(* time since the last accepted trigger for that path is strictly greater  *)
(* than the cooldown.                                                      *)
(***************************************************************************)
DebounceAcceptsIffCooldownElapsed ==
    (verdict.called /\ PassesFilters([Name |-> verdict.Name, Op |-> verdict.Op]))
        => (verdict.result <=>
              (verdict.prior = -1 \/ verdict.at - verdict.prior > eventCooldown))

\* a second trigger exactly one cooldown after the accepted one is rejected
DebounceWitnessRejectedAtCooldown ==
    /\ verdict.called
    /\ PassesFilters([Name |-> verdict.Name, Op |-> verdict.Op])
    /\ verdict.prior # -1
    /\ verdict.at - verdict.prior = eventCooldown
    /\ ~verdict.result

(***************************************************************************)
(* The sync engine.  An operation works on a world: the local files, the   *)
(* remote objects, the snapshots, the temporary files, the log of the      *)
(* steps taken so far and the error flag of the step that ran last.        *)
(***************************************************************************)
World(l, r, b, t) ==
    [local |-> l, remote |-> r, backups |-> b, tmp |-> t, log |-> <<>>,
     err |-> FALSE]

Logged(w, op, name, res) ==
    [w EXCEPT !.log = Append(@, [op |-> op, name |-> name, res |-> res])]

Failed(w) == [w EXCEPT !.err = TRUE]

Succeeded(w) == [w EXCEPT !.err = FALSE]

\* ObjectInfo.LastModified, in the location the client library gave it
LastModified(stat) == [ns |-> stat.lastModified, loc |-> stat.zone]

\* extractModTime: the Modtime metadata when it parses, else LastModified
extractModTime_local(stat) ==
    LET rawModTime == stat.meta
        ts == ParseInt(rawModTime)
    IN  IF rawModTime # <<>> /\ ~ts.err THEN Unix(ts.val) ELSE LastModified(stat)

extractModTime(stat) ==
    LET rawModTime == stat.meta
        ts == ParseInt(rawModTime)
        cloudModTime == IF rawModTime # <<>> /\ ~ts.err THEN Unix(ts.val)
                        ELSE LastModified(stat)
    IN  UTC(cloudModTime)

\* S3Client.Stat: "error" stands for a failure other than a missing object
Stat_zeroinfo(w, F, ph, objectName) ==
    IF Fails(F, ph, objectName, "stat") THEN [res |-> "error", ModTime |-> 0]
    ELSE [res |-> "ok", ModTime |-> extractModTime(w.remote[objectName]).ns]

Stat(w, F, ph, objectName) ==
    IF Fails(F, ph, objectName, "stat") THEN [res |-> "error", ModTime |-> 0]
    ELSE IF ~w.remote[objectName].exists THEN [res |-> "notfound", ModTime |-> 0]
    ELSE [res |-> "ok", ModTime |-> extractModTime(w.remote[objectName]).ns]

\* S3Client.Upload: the object gets the file's content, its modification
\* time as Modtime metadata, and the time of the upload as LastModified
Upload_nometadata(w, F, ph, name, objectName, t) ==
    LET info == w.local[name]
    IN  IF ~info.exists \/ Fails(F, ph, name, "upload")
        THEN Failed(Logged(w, "upload", name, "fail"))
        ELSE Succeeded(Logged(
                 [w EXCEPT !.remote[objectName] = Object(info.content, <<>>, t)],
                 "upload", name, "ok"))

Upload_touches(w, F, ph, name, objectName, t) ==
    LET info == w.local[name]
    IN  IF ~info.exists \/ Fails(F, ph, name, "upload")
        THEN Failed(Logged(w, "upload", name, "fail"))
        ELSE Succeeded(Logged(
                 [w EXCEPT !.remote[objectName] =
                               Object(info.content, FormatInt(info.mtime), t),
                           !.local[name].mtime = t],
                 "upload", name, "ok"))

Upload(w, F, ph, name, objectName, t) ==
    LET info == w.local[name]
    IN  IF ~info.exists \/ Fails(F, ph, name, "upload")
        THEN Failed(Logged(w, "upload", name, "fail"))
        ELSE Succeeded(Logged(
                 [w EXCEPT !.remote[objectName] =
                      Object(info.content, FormatInt(info.mtime), t)],
                 "upload", name, "ok"))

\* S3Client.Download: FGetObject leaves the target path alone unless the
\* whole object has arrived
Download(w, F, ph, objectName, tempPath) ==
    IF ~w.remote[objectName].exists \/ Fails(F, ph, objectName, "download")
    THEN Failed(Logged(w, "download", objectName, "fail"))
    ELSE Succeeded(Logged(
             [w EXCEPT !.tmp[tempPath] = w.remote[objectName].content],
             "download", objectName, "ok"))

\* copyFile (os.ReadFile, then os.WriteFile): the destination after the
\* call.  early: the read or the opening of the destination fails;
\* midway: the write fails after the destination was truncated.
copyFile_truncates(content, dst, early, midway, t) ==
    IF early THEN [err |-> TRUE, file |-> dst]
    ELSE IF midway THEN [err |-> TRUE, file |-> File(Partial, t)]
    ELSE [err |-> FALSE, file |-> File(Partial, t)]

copyFile(content, dst, early, midway, t) ==
    IF early THEN [err |-> TRUE, file |-> dst]
    ELSE IF midway THEN [err |-> TRUE, file |-> File(Partial, t)]
    ELSE [err |-> FALSE, file |-> File(content, t)]

LatestStamp(b) == IF b = <<>> THEN 0 ELSE b[Len(b)].stamp

\* Syncer.createTimestampedBackupDir: os.Mkdir of a directory named by the
\* current microsecond; "clock" is a call within the microsecond of the
\* latest snapshot
createTimestampedBackupDir(w, F, ph, name) ==
    LET timestamp == IF Fails(F, ph, name, "clock")
                     THEN LatestStamp(w.backups)
                     ELSE LatestStamp(w.backups) + 1
        exists == \E i \in 1..Len(w.backups) : w.backups[i].stamp = timestamp
    IN  IF Fails(F, ph, name, "mkdir")
        THEN Failed(Logged(w, "mkdir", name, "fail"))
        \* os.Mkdir fails on a directory that exists
        ELSE IF exists
        THEN Failed(Logged(Logged(w, "mkdir", name, "fail"), "clock", name, "same"))
        ELSE Succeeded(Logged(
                 [w EXCEPT !.backups =
                      Append(@, [stamp |-> timestamp, name |-> name, file |-> NoFile])],
                 "mkdir", name, "ok"))

\* Syncer.createBackup
createBackup(w, F, ph, name, t) ==
    LET w1 == createTimestampedBackupDir(w, F, ph, name)
        n == Len(w1.backups)
        c == copyFile(w1.local[name].content, NoFile,
                      Fails(F, ph, name, "bcopy"),
                      Fails(F, ph, name, "bcopypartial"), t)
        w2 == [w1 EXCEPT !.backups[n].file = c.file]
    IN  IF w1.err THEN w1
        ELSE IF c.err
             THEN Failed(Logged(w2, "backup", name,
                                IF c.file.exists THEN "partial" ELSE "fail"))
             ELSE Succeeded(Logged(w2, "backup", name, "ok"))

fileExists(w, name) == w.local[name].exists

\* Syncer.backupAndUpload
backupAndUpload(w, F, ph, name, objectName, t) ==
    LET w1 == IF fileExists(w, name) THEN createBackup(w, F, ph, name, t) ELSE w
    IN  IF w1.err THEN w1 ELSE Upload(w1, F, ph, name, objectName, t)

\* Syncer.downloadAndReplace, after the backup: download to the temporary
\* path, copy it over the local file, remove it, restore the time
transferAndReplace(w, F, ph, objectName, name, modTime, t) ==
    LET tempPath == <<objectName, ".download">>
        w2 == Download(w, F, ph, objectName, tempPath)
        c == copyFile(w2.tmp[tempPath], w2.local[name],
                      Fails(F, ph, name, "rcopy"),
                      Fails(F, ph, name, "rcopypartial"), t)
        \* os.Remove(tempPath) on both branches
        w3 == [w2 EXCEPT !.local[name] = c.file, !.tmp[tempPath] = NoTmp]
        w4 == Logged(w3, "replace", name, "ok")
    IN  IF w2.err THEN w2
        ELSE IF c.err
             THEN Failed(Logged(w3, "replace", name,
                                IF c.file = w2.local[name] THEN "fail" ELSE "partial"))
             \* os.Chtimes: a failure is logged and the write time stays
             ELSE IF Fails(F, ph, name, "chtimes")
                  THEN Succeeded(Logged(w4, "chtimes", name, "fail"))
                  ELSE Succeeded(Logged([w4 EXCEPT !.local[name].mtime = modTime],
                                        "chtimes", name, "ok"))

\* Syncer.downloadAndReplace
downloadAndReplace_ignorebackuperr(w, F, ph, objectName, name, modTime, t) ==
    LET w1 == IF fileExists(w, name) THEN createBackup(w, F, ph, name, t) ELSE w
    IN  transferAndReplace(w1, F, ph, objectName, name, modTime, t)

downloadAndReplace(w, F, ph, objectName, name, modTime, t) ==
    LET w1 == IF fileExists(w, name) THEN createBackup(w, F, ph, name, t) ELSE w
    IN  IF w1.err THEN w1
        ELSE transferAndReplace(w1, F, ph, objectName, name, modTime, t)

\* the decision of SyncFile on diff = cloudTime - localTime
Decide_strict(diff) ==
    IF diff >= timeTolerance THEN "Download"
    ELSE IF diff <= -timeTolerance THEN "Upload"
    ELSE "NoOp"

Decide(diff) ==
    IF diff > timeTolerance THEN "Download"
    ELSE IF diff < -timeTolerance THEN "Upload"
    ELSE "NoOp"

\* Syncer.SyncFile; every error of the remote stat takes the upload branch
SyncFile(w, F, ph, filePath, t) ==
    LET name == Base(filePath)
        info == w.local[name]
        objectName == Base(filePath)
        cloudInfo == Stat(w, F, ph, objectName)
        w1 == Logged(w, "stat", objectName, cloudInfo.res)
        localTime == info.mtime
        cloudTime == cloudInfo.ModTime
        diff == cloudTime - localTime
        w2 == Logged(w1, "decide", name, Decide(diff))
    IN  IF ~info.exists THEN Failed(Logged(w, "lstat", name, "fail"))
        ELSE IF cloudInfo.res # "ok"
             THEN backupAndUpload(w1, F, ph, name, objectName, t)
        ELSE IF Decide(diff) = "Download"
             THEN downloadAndReplace(w2, F, ph, objectName, name, cloudTime, t)
        ELSE IF Decide(diff) = "Upload"
             THEN backupAndUpload(w2, F, ph, name, objectName, t)
        ELSE Succeeded(w2)

\* the order in which os.ReadDir and the listing of the bucket yield names
NameOrder == <<GameSav, SlotSav>>

\* S3Client.List: every object with the ModTime that Stat reports; the
\* listing fails as a whole when the stat of one object fails
List(w, F, ph) ==
    LET present == SelectSeq(NameOrder, LAMBDA n : w.remote[n].exists)
        failing == {i \in 1..Len(present) : Fails(F, ph, present[i], "stat")}
    IN  IF failing # {}
        THEN [err |-> TRUE, files |-> <<>>,
              object |-> present[CHOOSE i \in failing : \A j \in failing : i <= j]]
        ELSE [err |-> FALSE, object |-> <<>>,
              files |-> [i \in 1..Len(present) |->
                           [Name |-> present[i],
                            ModTime |-> extractModTime(w.remote[present[i]]).ns]]]

\* the loop of Syncer.downloadCloudFiles
RECURSIVE downloadEach(_, _, _, _, _)
downloadEach(w, cloudFiles, F, ph, t) ==
    IF cloudFiles = <<>> THEN Succeeded(w)
    ELSE LET cloudFile == Head(cloudFiles)
             localPath == Join(watchPath, Base(<<cloudFile.Name>>))
             name == Base(localPath)
             localInfo == w.local[name]
             w1 == IF ~syncShouldSyncFile(<<cloudFile.Name>>) THEN w
                   ELSE IF ~localInfo.exists
                        \/ cloudFile.ModTime - localInfo.mtime > timeTolerance
                        THEN downloadAndReplace(w, F, ph, cloudFile.Name, name,
                                                cloudFile.ModTime, t)
                        ELSE w
         IN  downloadEach(w1, Tail(cloudFiles), F, ph, t)

\* Syncer.downloadCloudFiles
downloadCloudFiles(w, F, ph, t) ==
    LET cloudFiles == List(w, F, ph)
    IN  IF cloudFiles.err THEN Failed(Logged(w, "list", cloudFiles.object, "fail"))
        ELSE downloadEach(Logged(w, "list", <<>>, "ok"), cloudFiles.files, F, ph, t)

(***************************************************************************)
(* The same operations in main.go.  Its functions return no error: err     *)
(* only records whether the last step failed.                              *)
(***************************************************************************)
\* getCloudModTime
getCloudModTime(stat) ==
    LET rawModTime == stat.meta
        ts == ParseInt(rawModTime)
        cloudModTime == IF rawModTime # <<>> /\ ~ts.err THEN Unix(ts.val)
                        ELSE LastModified(stat)
    IN  UTC(cloudModTime)

\* client.StatObject followed by getCloudModTime
StatObject(w, F, ph, objectName) ==
    IF Fails(F, ph, objectName, "stat") THEN [res |-> "error", ModTime |-> 0]
    ELSE IF ~w.remote[objectName].exists THEN [res |-> "notfound", ModTime |-> 0]
    ELSE [res |-> "ok", ModTime |-> getCloudModTime(w.remote[objectName]).ns]

\* copyFile of main.go (os.Open, os.Create, io.Copy): the same outcomes
mainCopyFile(content, dst, early, midway, t) ==
    IF early THEN [err |-> TRUE, file |-> dst]
    ELSE IF midway THEN [err |-> TRUE, file |-> File(Partial, t)]
    ELSE [err |-> FALSE, file |-> File(content, t)]

\* createBackupTimeFolder
createBackupTimeFolder(w, F, ph, name) ==
    LET timeFolder == IF Fails(F, ph, name, "clock")
                      THEN LatestStamp(w.backups)
                      ELSE LatestStamp(w.backups) + 1
        exists == \E i \in 1..Len(w.backups) : w.backups[i].stamp = timeFolder
    IN  IF Fails(F, ph, name, "mkdir")
        THEN Failed(Logged(w, "mkdir", name, "fail"))
        \* os.Mkdir fails on a directory that exists
        ELSE IF exists
        THEN Failed(Logged(Logged(w, "mkdir", name, "fail"), "clock", name, "same"))
        ELSE Succeeded(Logged(
                 [w EXCEPT !.backups =
                      Append(@, [stamp |-> timeFolder, name |-> name, file |-> NoFile])],
                 "mkdir", name, "ok"))

\* the backup copy that backupAndReplace and backupAndUpload make
mainBackupCopy(w, F, ph, name, t) ==
    LET n == Len(w.backups)
        c == mainCopyFile(w.local[name].content, NoFile,
                          Fails(F, ph, name, "bcopy"),
                          Fails(F, ph, name, "bcopypartial"), t)
        w2 == [w EXCEPT !.backups[n].file = c.file]
    IN  IF c.err
        THEN Failed(Logged(w2, "backup", name,
                           IF c.file.exists THEN "partial" ELSE "fail"))
        ELSE Succeeded(Logged(w2, "backup", name, "ok"))

\* uploadToCloud: FPutObject with the file's modification time as metadata
uploadToCloud(w, F, ph, name, objectName, t) ==
    LET info == w.local[name]
    IN  IF ~info.exists \/ Fails(F, ph, name, "upload")
        THEN Failed(Logged(w, "upload", name, "fail"))
        ELSE Succeeded(Logged(
                 [w EXCEPT !.remote[objectName] =
                      Object(info.content, FormatInt(info.mtime), t)],
                 "upload", name, "ok"))

\* backupAndUpload of main.go: a failed backup copy is logged, and the
\* upload goes on
mainBackupAndUpload(w, F, ph, name, t) ==
    LET w1 == createBackupTimeFolder(w, F, ph, name)
        w2 == mainBackupCopy(w1, F, ph, name, t)
    IN  IF w1.err THEN w1
        ELSE uploadToCloud(w2, F, ph, name, name, t)

\* backupAndReplace
backupAndReplace(w, F, ph, name, newPath, t) ==
    LET w1 == IF fileExists(w, name)
              THEN createBackupTimeFolder(w, F, ph, name)
              ELSE w
        w2 == IF fileExists(w, name) /\ ~w1.err
              THEN mainBackupCopy(w1, F, ph, name, t)
              ELSE w1
        c == mainCopyFile(w2.tmp[newPath], w2.local[name],
                          Fails(F, ph, name, "rcopy"),
                          Fails(F, ph, name, "rcopypartial"), t)
        w3 == [w2 EXCEPT !.local[name] = c.file]
    IN  IF w2.err THEN w2
        ELSE IF c.err
             THEN Failed(Logged(w3, "replace", name,
                                IF c.file = w2.local[name] THEN "fail" ELSE "partial"))
             ELSE Succeeded(Logged(w3, "replace", name, "ok"))

\* os.Chtimes(localPath, cloudModTime, cloudModTime), its error ignored
Chtimes(w, F, ph, name, modTime) ==
    IF ~w.local[name].exists \/ Fails(F, ph, name, "chtimes")
    THEN Logged(w, "chtimes", name, "fail")
    ELSE Logged([w EXCEPT !.local[name].mtime = modTime], "chtimes", name, "ok")

\* client.FGetObject to the temporary path
FGetObject(w, F, ph, objectName, tempPath) ==
    IF ~w.remote[objectName].exists \/ Fails(F, ph, objectName, "download")
    THEN Failed(Logged(w, "download", objectName, "fail"))
    ELSE Succeeded(Logged(
             [w EXCEPT !.tmp[tempPath] = w.remote[objectName].content],
             "download", objectName, "ok"))

\* checkCloudAndSync
checkCloudAndSync(w, F, ph, filePath, t) ==
    LET name == Base(filePath)
        info == w.local[name]
        objectName == Base(filePath)
        stat == StatObject(w, F, ph, objectName)
        w1 == Logged(w, "stat", objectName, stat.res)
        cloudModTime == stat.ModTime
        localFileTime == info.mtime
        diff == cloudModTime - localFileTime
        w2 == Logged(w1, "decide", name, Decide(diff))
        tempPath == <<objectName, ".cloud">>
        w3 == FGetObject(w2, F, ph, objectName, tempPath)
    IN  IF ~info.exists THEN Failed(Logged(w, "lstat", name, "fail"))
        ELSE IF stat.res # "ok" THEN mainBackupAndUpload(w1, F, ph, name, t)
        ELSE IF Decide(diff) = "Download"
             THEN IF w3.err THEN w3
                  ELSE LET w4 == backupAndReplace(w3, F, ph, name, tempPath, t)
                       IN  [Chtimes(w4, F, ph, name, cloudModTime) EXCEPT !.err = w4.err]
        ELSE IF Decide(diff) = "Upload"
             THEN mainBackupAndUpload(w2, F, ph, name, t)
        ELSE Succeeded(w2)

(***************************************************************************)
(* Operations of the sync engine as actions, and the environment: the      *)
(* application writing its save files, another machine changing the        *)
(* bucket, time passing.                                                   *)
(***************************************************************************)
\* the outcome w of an operation becomes the state
Apply(w, impl, act, name) ==
    /\ Len(w.backups) <= MaxBackups
    /\ local' = w.local
    /\ remote' = w.remote
    /\ backups' = w.backups
    /\ tmp' = w.tmp
    /\ lastOp' = [impl |-> impl, act |-> act, name |-> name, local |-> local,
                  remote |-> remote, backups |-> backups, log |-> w.log,
                  err |-> w.err]
    /\ replaced' = replaced \cup
          {local[n].content : n \in {m \in SyncNames :
               local[m].exists /\ w.local[m].content # local[m].content}}

\* a sync operation run on its own, by one of the two implementations
Commit(w, impl, act, name) ==
    /\ lastOp.impl \in {"none", impl}
    /\ opSteps < MaxOps
    /\ opSteps' = opSteps + 1
    /\ Apply(w, impl, act, name)

SyncerSyncFile(name) ==
    /\ \E F \in FaultPlans({"local"}, {name}) :
          Commit(SyncFile(World(local, remote, backups, tmp), F, "local",
                          Join(watchPath, name), now),
                 "syncer", "SyncFile", name)
    /\ UNCHANGED envSteps
    /\ UNCHANGED wvars
    /\ UNCHANGED lvars
    /\ UNCHANGED pvars

SyncerDownloadCloudFiles ==
    /\ \E F \in FaultPlans({"remote"}, SyncNames) :
          Commit(downloadCloudFiles(World(local, remote, backups, tmp), F,
                                    "remote", now),
                 "syncer", "downloadCloudFiles", <<>>)
    /\ UNCHANGED envSteps
    /\ UNCHANGED wvars
    /\ UNCHANGED lvars
    /\ UNCHANGED pvars

MainCheckCloudAndSync(name) ==
    /\ \E F \in FaultPlans({"local"}, {name}) :
          Commit(checkCloudAndSync(World(local, remote, backups, tmp), F, "local",
                                   Join(watchPath, name), now),
                 "main", "SyncFile", name)
    /\ UNCHANGED envSteps
    /\ UNCHANGED wvars
    /\ UNCHANGED lvars
    /\ UNCHANGED pvars

\* the application saves a file
LocalWrite(name, c) ==
    /\ envSteps < MaxEnv
    /\ envSteps' = envSteps + 1
    /\ local' = [local EXCEPT ![name] = File(c, now)]
    /\ lastOp' = [NoLast EXCEPT !.impl = lastOp.impl, !.act = "env"]
    /\ UNCHANGED <<remote, backups, tmp, replaced, opSteps>>
    /\ UNCHANGED wvars
    /\ UNCHANGED lvars
    /\ UNCHANGED pvars

\* another machine uploads a save
RemotePut(name, c) ==
    /\ envSteps < MaxEnv
    /\ envSteps' = envSteps + 1
    /\ remote' = [remote EXCEPT ![name] = Object(c, FormatInt(now), now)]
    /\ lastOp' = [NoLast EXCEPT !.impl = lastOp.impl, !.act = "env"]
    /\ UNCHANGED <<local, backups, tmp, replaced, opSteps>>
    /\ UNCHANGED wvars
    /\ UNCHANGED lvars
    /\ UNCHANGED pvars

\* the files and objects the program may find when it starts
\* (the local save and the save of the other machine differ in content;
\* a local file is as old or as new as can be, so that every difference
\* from -InitTime to InitTime occurs; an object comes with its Modtime
\* metadata, without it, or with a value that is no number)
InitFiles == {NoFile} \cup {File(1, t) : t \in {0, InitTime}}

InitObjects ==
    {NoObject}
        \cup {Object(MaxContent, FormatInt(t), InitTime) : t \in 0..InitTime}
        \cup {Object(MaxContent, m, InitTime) : m \in {<<>>, <<"x">>}}

\* the second file starts in one of five situations: on neither side, on
\* one side only, on both sides with the remote or the local copy newer
InitSlot ==
    { <<NoFile, NoObject>>,
      <<File(1, 0), NoObject>>,
      <<NoFile, Object(MaxContent, FormatInt(0), InitTime)>>,
      <<File(1, 0), Object(MaxContent, FormatInt(InitTime), InitTime)>>,
      <<File(1, InitTime), Object(MaxContent, FormatInt(0), InitTime)>> }

SyncInit ==
    /\ now = InitTime + 1
    /\ lastEventTime = [p \in EventPaths |-> -1]
    /\ verdict = NoVerdict
    /\ lastAccept = [p \in EventPaths |-> -1]
    /\ \E f \in InitFiles, o \in InitObjects, s \in InitSlot :
          /\ local = (GameSav :> f) @@ (SlotSav :> s[1])
          /\ remote = (GameSav :> o) @@ (SlotSav :> s[2])
    /\ backups = <<>>
    /\ tmp = [x \in TmpNames |-> NoTmp]
    /\ lastOp = NoLast
    /\ replaced = {}
    /\ envSteps = 0
    /\ opSteps = 0
    /\ pc = "start"
    /\ timerStart = 0
    /\ processName = <<>>
    /\ procs = [ok |-> TRUE, names |-> {}]
    /\ loopOp = NoLoopOp
    /\ idleSince = -1
    /\ probe = NoProbe
    /\ boot = NoBoot
    /\ mux = NoMux

SyncNext ==
    \/ \E name \in SyncNames : SyncerSyncFile(name)
    \/ SyncerDownloadCloudFiles
    \/ \E name \in SyncNames : MainCheckCloudAndSync(name)
    \/ \E name \in SyncNames, c \in Contents : LocalWrite(name, c)
    \/ \E name \in SyncNames, c \in Contents : RemotePut(name, c)

SpecSync == SyncInit /\ [][SyncNext]_vars

(***************************************************************************)
(* The process guard.  A process name is a string of characters.           *)
(***************************************************************************)
ExeShell == <<"s", "h">>

ExeGame == <<"G", "a", "m", "e">>

\* unicode.ToLower on the letters that occur
ToLowerChar(c) ==
    CASE c = "G" -> "g"
      [] c = "A" -> "a"
      [] c = "M" -> "m"
      [] c = "E" -> "e"
      [] OTHER -> c

\* strings.ToLower
ToLower(s) == [i \in 1..Len(s) |-> ToLowerChar(s[i])]

\* strings.Contains(s, substr): the empty string is contained in every string
Contains(s, substr) ==
    \E i \in 1..(Len(s) - Len(substr) + 1) :
        SubSeq(s, i, i + Len(substr) - 1) = substr

\* the configurations of -process-name: none, a name in another case
ProcessNames == {<<>>, <<"g", "A", "M">>}

\* what process.Processes() returns: the list, or an error
ProcLists == {[ok |-> TRUE, names |-> {ExeShell}],
              [ok |-> TRUE, names |-> {ExeShell, ExeGame}],
              [ok |-> FALSE, names |-> {}]}

\* isProcessRunning of main.go
isProcessRunning(name, ps) ==
    IF ~ps.ok THEN FALSE
    ELSE \E exeName \in ps.names : Contains(ToLower(exeName), ToLower(name))

\* Syncer.IsProcessRunning: an empty process name is never running
IsProcessRunning_exactcase(name, ps) ==
    IF name = <<>> THEN FALSE
    ELSE IF ~ps.ok THEN FALSE
    ELSE \E exeName \in ps.names : Contains(exeName, name)

IsProcessRunning(name, ps) ==
    IF name = <<>> THEN FALSE
    ELSE IF ~ps.ok THEN FALSE
    ELSE \E exeName \in ps.names : Contains(ToLower(exeName), ToLower(name))

(***************************************************************************)
(* The reconciliation pass of main.go and its event loop.                  *)
(***************************************************************************)
\* the loop over the directory entries in localAndCloudSync
RECURSIVE checkEach(_, _, _, _)
checkEach(w, entries, F, t) ==
    IF entries = <<>> THEN w
    ELSE LET path == Join(watchPath, Head(entries))
             w1 == IF mainShouldSyncFile(path)
                   THEN checkCloudAndSync(w, F, "local", path, t)
                   ELSE w
         IN  checkEach(w1, Tail(entries), F, t)

\* the loop over the listed objects in syncFromCloud
RECURSIVE syncEach(_, _, _, _)
syncEach(w, objects, F, t) ==
    IF objects = <<>> THEN w
    ELSE LET objectName == Head(objects)
             name == Base(Join(watchPath, Base(<<objectName>>)))
             localInfo == w.local[name]
             stat == StatObject(w, F, "remote", objectName)
             w1 == Logged(w, "stat", objectName, stat.res)
             cloudModTime == stat.ModTime
             tempPath == <<objectName, ".download">>
             w2 == FGetObject(w1, F, "remote", objectName, tempPath)
             w3 == backupAndReplace(w2, F, "remote", name, tempPath, t)
             w4 == [Chtimes(w3, F, "remote", name, cloudModTime)
                       EXCEPT !.err = w3.err]
             done == IF ~mainShouldSyncFile(<<objectName>>) THEN w
                     ELSE IF stat.res # "ok" THEN Failed(w1)
                     ELSE IF ~localInfo.exists
                             \/ cloudModTime - localInfo.mtime > timeTolerance
                          THEN IF w2.err THEN w2 ELSE w4
                     ELSE w1
         IN  syncEach(done, Tail(objects), F, t)

\* syncFromCloud
syncFromCloud(w, F, t) ==
    syncEach(Logged(w, "list", <<>>, "ok"),
             SelectSeq(NameOrder, LAMBDA n : w.remote[n].exists), F, t)

\* localAndCloudSync: nothing is done when the directory cannot be read
localAndCloudSync(w, F, readDirFails, t) ==
    IF readDirFails THEN Failed(Logged(w, "readdir", <<>>, "fail"))
    ELSE syncFromCloud(
             checkEach(Logged(w, "readdir", <<>>, "ok"),
                       SelectSeq(NameOrder, LAMBDA n : w.local[n].exists), F, t),
             F, t)

\* the failures a pass may meet: none matters once the pass has ended early
PassFaults(endsEarly) ==
    IF endsEarly THEN {{}} ELSE FaultPlans(Phases, SyncNames)

\* one iteration of the loop: what it was about, what the guard reports,
\* whether the trigger passed the filters and the debounce, and whether a
\* sync was started
Iteration(kind, accepted, started) ==
    /\ pc = "select"
    /\ pc' = pc
    /\ timerStart' = now
    /\ loopOp' = [kind |-> kind,
                  running |-> IsProcessRunning(processName, procs),
                  accepted |-> accepted, started |-> started]
    /\ opSteps' = IF started THEN opSteps + 1 ELSE opSteps
    /\ opSteps' <= MaxOps
    /\ idleSince' = IF kind = "timer" /\ started THEN now ELSE idleSince
    /\ UNCHANGED <<now, processName, procs, verdict, lastAccept, envSteps>>
    /\ UNCHANGED pvars

\* main, lines 29 to 38: the initial sync
MainStart ==
    /\ pc = "start"
    /\ pc' = "select"
    /\ timerStart' = now
    /\ \E readDirFails \in BOOLEAN :
       \E F \in PassFaults(readDirFails) :
          Apply(localAndCloudSync(World(local, remote, backups, tmp), F,
                                  readDirFails, now),
                "main", "initial", <<>>)
    /\ loopOp' = [kind |-> "initial",
                  running |-> IsProcessRunning(processName, procs),
                  accepted |-> FALSE, started |-> TRUE]
    /\ opSteps' = opSteps + 1
    /\ idleSince' = IF IsProcessRunning(processName, procs) THEN -1 ELSE now
    /\ UNCHANGED <<now, processName, procs, lastEventTime, verdict, lastAccept,
                   envSteps>>
    /\ UNCHANGED pvars

\* case event := <-watcher.Events
HandleEvent(event) ==
    LET paused == processName # <<>> /\ isProcessRunning(processName, procs)
        wanted == /\ event.Op \cap {"Write", "Create"} # {}
                  /\ mainShouldSyncFile(event.Name)
                  /\ Dir(event.Name) = Clean(watchPath)
        last == lastEventTime[event.Name]
        fresh == last = -1 \/ now - last > eventCooldown
        accepted == wanted /\ fresh
    IN  IF accepted /\ ~paused
        THEN /\ Iteration("event", accepted, TRUE)
             /\ lastEventTime' = [lastEventTime EXCEPT ![event.Name] = now]
             /\ \E F \in FaultPlans({"local"}, {Base(event.Name)}) :
                   Apply(checkCloudAndSync(World(local, remote, backups, tmp),
                                           F, "local", event.Name, now),
                         "main", "SyncFile", Base(event.Name))
        ELSE /\ Iteration("event", accepted, FALSE)
             /\ UNCHANGED <<lastEventTime, local, remote, backups, tmp, lastOp,
                            replaced>>

\* case err := <-watcher.Errors
HandleError ==
    /\ Iteration("error", FALSE, FALSE)
    /\ UNCHANGED <<lastEventTime, local, remote, backups, tmp, lastOp, replaced>>

\* case <-time.After(time.Second * 10)
TimerFire ==
    /\ now - timerStart >= syncInterval
    /\ IF processName # <<>> /\ ~isProcessRunning(processName, procs)
       THEN /\ Iteration("timer", FALSE, TRUE)
            /\ \E readDirFails \in BOOLEAN :
               \E F \in PassFaults(readDirFails) :
                  Apply(localAndCloudSync(World(local, remote, backups, tmp), F,
                                          readDirFails, now),
                        "main", "pass", <<>>)
       ELSE /\ Iteration("timer", FALSE, FALSE)
            /\ UNCHANGED <<local, remote, backups, tmp, lastOp, replaced>>
    /\ UNCHANGED lastEventTime

\* SIGINT or SIGTERM reaches the process: main installs no handler and its
\* context is context.Background(), which is never cancelled, so the case
\* <-ctx.Done() is never taken and the runtime ends the process where it is
Signal ==
    /\ pc = "select"
    /\ pc' = "killed"
    /\ loopOp' = [kind |-> "signal",
                  running |-> IsProcessRunning(processName, procs),
                  accepted |-> FALSE, started |-> FALSE]
    /\ UNCHANGED <<timerStart, processName, procs, idleSince>>
    /\ UNCHANGED wvars
    /\ UNCHANGED svars
    /\ UNCHANGED pvars

\* time passes while the loop waits: tick by tick at first, then up to the
\* expiry of the timer
LoopTick ==
    /\ pc = "select"
    /\ now < timerStart + syncInterval
    /\ now' = IF now < InitTime + 1 + MaxIdle THEN now + 1
              ELSE timerStart + syncInterval
    /\ now' <= MaxLoopTime
    /\ UNCHANGED <<lastEventTime, verdict, lastAccept>>
    /\ UNCHANGED svars
    /\ UNCHANGED lvars
    /\ UNCHANGED pvars

\* a process starts or ends, or the process list becomes unavailable
ProcChange(ps) ==
    /\ pc # "killed"
    /\ ps # procs
    /\ procs' = ps
    /\ idleSince' = IF pc # "select" \/ IsProcessRunning(processName, ps) THEN -1
                    ELSE IF idleSince = -1 THEN now
                    ELSE idleSince
    /\ UNCHANGED <<pc, timerStart, processName, loopOp>>
    /\ UNCHANGED wvars
    /\ UNCHANGED svars
    /\ UNCHANGED pvars

LoopInit ==
    /\ now = InitTime + 1
    /\ lastEventTime = [p \in EventPaths |-> -1]
    /\ verdict = NoVerdict
    /\ lastAccept = [p \in EventPaths |-> -1]
    /\ \E f \in {NoFile, File(1, 0)},
          o \in {NoObject, Object(MaxContent, FormatInt(InitTime), InitTime)} :
          /\ local = (GameSav :> f) @@ (SlotSav :> NoFile)
          /\ remote = (GameSav :> o) @@ (SlotSav :> NoObject)
    /\ backups = <<>>
    /\ tmp = [x \in TmpNames |-> NoTmp]
    /\ lastOp = NoLast
    /\ replaced = {}
    /\ envSteps = 0
    /\ opSteps = 0
    /\ pc = "start"
    /\ timerStart = 0
    /\ processName \in ProcessNames
    /\ procs \in ProcLists
    /\ loopOp = NoLoopOp
    /\ idleSince = -1
    /\ probe = NoProbe
    /\ boot = NoBoot
    /\ mux = NoMux

LoopNext ==
    \/ MainStart
    \/ \E event \in LoopEvents : HandleEvent(event)
    \/ HandleError
    \/ TimerFire
    \/ Signal
    \/ LoopTick
    \/ \E ps \in ProcLists : ProcChange(ps)

SpecLoop == LoopInit /\ [][LoopNext]_vars

(***************************************************************************)
(* The full reconciliation pass of the Syncer, and both passes as          *)
(* operations run on their own.                                            *)
(***************************************************************************)
\* S3Client.EnsureBucket: BucketExists, then MakeBucket when it is missing
EnsureBucket(w, bucketFails) ==
    IF bucketFails THEN Failed(Logged(w, "ensure", <<>>, "fail"))
    ELSE Succeeded(Logged(w, "ensure", <<>>, "ok"))

\* the loop of Syncer.uploadLocalFiles: an error of SyncFile is logged
RECURSIVE uploadEach(_, _, _, _)
uploadEach(w, entries, F, t) ==
    IF entries = <<>> THEN w
    ELSE LET path == Join(watchPath, Head(entries))
             w1 == IF ~syncShouldSyncFile(path) THEN w
                   ELSE SyncFile(w, F, "local", path, t)
         IN  uploadEach(w1, Tail(entries), F, t)

\* Syncer.uploadLocalFiles
uploadLocalFiles(w, F, readDirFails, t) ==
    IF readDirFails THEN Failed(Logged(w, "readdir", <<>>, "fail"))
    ELSE Succeeded(uploadEach(Logged(w, "readdir", <<>>, "ok"),
                              SelectSeq(NameOrder, LAMBDA n : w.local[n].exists),
                              F, t))

\* Syncer.InitialSync
InitialSync_uploadonly(w, F, bucketFails, readDirFails, t) ==
    LET w1 == EnsureBucket(w, bucketFails)
        w2 == uploadLocalFiles(w1, F, readDirFails, t)
    IN  IF w1.err THEN w1 ELSE w2

InitialSync(w, F, bucketFails, readDirFails, t) ==
    LET w1 == EnsureBucket(w, bucketFails)
        w2 == uploadLocalFiles(w1, F, readDirFails, t)
    IN  IF w1.err THEN w1
        ELSE IF w2.err THEN w2
        ELSE downloadCloudFiles(w2, F, "remote", t)

SyncerInitialSync ==
    /\ \E bucketFails, readDirFails \in BOOLEAN :
       \E F \in PassFaults(bucketFails \/ readDirFails) :
          Commit(InitialSync(World(local, remote, backups, tmp), F, bucketFails,
                             readDirFails, now),
                 "syncer", "pass", <<>>)
    /\ UNCHANGED envSteps
    /\ UNCHANGED wvars
    /\ UNCHANGED lvars
    /\ UNCHANGED pvars

MainLocalAndCloudSync ==
    /\ \E readDirFails \in BOOLEAN :
       \E F \in PassFaults(readDirFails) :
          Commit(localAndCloudSync(World(local, remote, backups, tmp), F,
                                   readDirFails, now),
                 "main", "pass", <<>>)
    /\ UNCHANGED envSteps
    /\ UNCHANGED wvars
    /\ UNCHANGED lvars
    /\ UNCHANGED pvars

\* an object uploaded by a machine whose clock is ahead
AheadObject == Object(MaxContent, FormatInt(InitTime + 3), InitTime)

PassInit ==
    /\ now = InitTime + 1
    /\ lastEventTime = [p \in EventPaths |-> -1]
    /\ verdict = NoVerdict
    /\ lastAccept = [p \in EventPaths |-> -1]
    /\ \E f \in InitFiles, o \in InitObjects \cup {AheadObject}, s \in InitSlot :
          /\ local = (GameSav :> f) @@ (SlotSav :> s[1])
          /\ remote = (GameSav :> o) @@ (SlotSav :> s[2])
    /\ backups = <<>>
    /\ tmp = [x \in TmpNames |-> NoTmp]
    /\ lastOp = NoLast
    /\ replaced = {}
    /\ envSteps = 0
    /\ opSteps = 0
    /\ pc = "start"
    /\ timerStart = 0
    /\ processName = <<>>
    /\ procs = [ok |-> TRUE, names |-> {}]
    /\ loopOp = NoLoopOp
    /\ idleSince = -1
    /\ probe = NoProbe
    /\ boot = NoBoot
    /\ mux = NoMux

PassNext ==
    \/ SyncerInitialSync
    \/ MainLocalAndCloudSync
    \/ \E name \in SyncNames, c \in Contents : LocalWrite(name, c)
    \/ \E name \in SyncNames, c \in Contents : RemotePut(name, c)

SpecPass == PassInit /\ [][PassNext]_vars

(***************************************************************************)
(* The last sync operation: the file it was about, before the operation,   *)
(* and the steps it took.                                                  *)
(***************************************************************************)
IsSyncFile == lastOp.act = "SyncFile"

PreLocal == lastOp.local[lastOp.name]

PreRemote == lastOp.remote[lastOp.name]

Did(op, res) ==
    \E i \in DOMAIN lastOp.log : lastOp.log[i].op = op /\ lastOp.log[i].res = res

Tried(op) == \E i \in DOMAIN lastOp.log : lastOp.log[i].op = op

TriedOn(op, n) ==
    \E i \in DOMAIN lastOp.log : lastOp.log[i].op = op /\ lastOp.log[i].name = n

DidOn(op, n, results) ==
    \E i \in DOMAIN lastOp.log :
        /\ lastOp.log[i].op = op
        /\ lastOp.log[i].name = n
        /\ lastOp.log[i].res \in results

\* the backup of n failed: no directory, or no complete copy in it
BackupFailed(n) == DidOn("mkdir", n, {"fail"}) \/ DidOn("backup", n, {"fail", "partial"})

\* the snapshots the last operation created for n
NewSnapshots(n) ==
    {i \in (Len(lastOp.backups) + 1)..Len(backups) : backups[i].name = n}

OldSnapshotsKept == SubSeq(backups, 1, Len(lastOp.backups)) = lastOp.backups

Swap(decision) ==
    IF decision = "Upload" THEN "Download"
    ELSE IF decision = "Download" THEN "Upload"
    ELSE decision

(***************************************************************************)
(* C1: when the remote object exists, SyncFile decides on                  *)
(* diff = remoteModTime - localModTime: Download above the tolerance,      *)
(* Upload below minus the tolerance, NoOp on [-tolerance, +tolerance];     *)
(* swapping the two times swaps Upload and Download and keeps NoOp.        *)
(***************************************************************************)
DecisionFollowsTolerance ==
    /\ (IsSyncFile /\ PreLocal.exists /\ Did("stat", "ok")) =>
          LET diff == extractModTime(PreRemote).ns - PreLocal.mtime
              expected == IF diff > timeTolerance THEN "Download"
                          ELSE IF diff < -timeTolerance THEN "Upload"
                          ELSE "NoOp"
          IN  /\ Did("decide", expected)
              /\ expected = "Download" =>
                    /\ ~Tried("upload")
                    /\ ~lastOp.err => local[lastOp.name].content = PreRemote.content
              /\ expected = "Upload" =>
                    /\ ~Tried("download")
                    /\ Did("upload", "ok") => remote[lastOp.name].content = PreLocal.content
              /\ expected = "NoOp" =>
                    /\ local = lastOp.local
                    /\ remote = lastOp.remote
                    /\ backups = lastOp.backups
    /\ \A d \in (0 - InitTime - 1)..(InitTime + 1) : Decide(0 - d) = Swap(Decide(d))

\* a SyncFile at a difference of exactly the tolerance did nothing
DecisionWitnessBoundaryNoOp ==
    /\ IsSyncFile
    /\ PreLocal.exists
    /\ Did("stat", "ok")
    /\ extractModTime(PreRemote).ns - PreLocal.mtime = timeTolerance
    /\ Did("decide", "NoOp")

(***************************************************************************)
(* C2: a download that replaces an existing local file comes after a       *)
(* complete backup of that file made by the same operation; when the       *)
(* backup cannot be made the local content stays; every content that a     *)
(* sync operation replaced is held by some snapshot.                       *)
(***************************************************************************)
BackupBeforeOverwrite ==
    /\ \A i \in DOMAIN lastOp.log :
          (/\ lastOp.log[i].op = "replace"
           /\ lastOp.log[i].res \in {"ok", "partial"}
           /\ lastOp.local[lastOp.log[i].name].exists)
          => \E j \in 1..(i - 1) :
                lastOp.log[j] = [op |-> "backup", name |-> lastOp.log[i].name,
                                 res |-> "ok"]
    /\ \A n \in SyncNames :
          BackupFailed(n) =>
             /\ local[n].exists = lastOp.local[n].exists
             /\ local[n].content = lastOp.local[n].content
    /\ \A c \in replaced :
          \E i \in DOMAIN backups : backups[i].file.exists /\ backups[i].file.content = c

\* a download has replaced an existing local file
BackupWitnessReplaced ==
    /\ \E n \in SyncNames : lastOp.local[n].exists /\ DidOn("replace", n, {"ok"})
    /\ replaced # {}

(***************************************************************************)
(* C3: an existing local file is uploaded only after a complete backup of  *)
(* it was made; when the backup fails there is no upload and the remote    *)
(* object stays as it was.                                                 *)
(***************************************************************************)
UploadOnlyAfterBackup ==
    /\ \A i \in DOMAIN lastOp.log :
          lastOp.log[i].op = "upload" =>
             \E j \in 1..(i - 1) :
                lastOp.log[j] = [op |-> "backup", name |-> lastOp.log[i].name,
                                 res |-> "ok"]
    /\ \A n \in SyncNames :
          BackupFailed(n) => (~TriedOn("upload", n) /\ remote[n] = lastOp.remote[n])

(***************************************************************************)
(* C4: when the remote object does not exist, SyncFile uploads the local   *)
(* file, backup first, whatever the local modification time; no time is    *)
(* compared.                                                               *)
(***************************************************************************)
RemoteMissingUploads ==
    (IsSyncFile /\ PreLocal.exists /\ ~PreRemote.exists /\ ~Did("stat", "error")) =>
        /\ ~Tried("decide")
        /\ ~Tried("download")
        /\ lastOp.log[2].op = "mkdir"
        /\ (\A i \in DOMAIN lastOp.log : lastOp.log[i].res \in {"ok", "notfound"}) =>
              /\ remote[lastOp.name] =
                    Object(PreLocal.content, FormatInt(PreLocal.mtime), now)
              /\ local = lastOp.local

\* a file older than anything else was uploaded to a bucket that lacked it
RemoteMissingWitness ==
    /\ IsSyncFile
    /\ PreLocal.exists
    /\ PreLocal.mtime = 0
    /\ ~PreRemote.exists
    /\ Did("upload", "ok")

(***************************************************************************)
(* C5: when the remote stat fails with an error other than not-found,      *)
(* SyncFile gives the file up: no backup, no upload, no download, and the  *)
(* remote object stays as it was.                                          *)
(***************************************************************************)
StatErrorAbandons ==
    (IsSyncFile /\ Did("stat", "error")) =>
        /\ ~Tried("mkdir")
        /\ ~Tried("backup")
        /\ ~Tried("upload")
        /\ ~Tried("download")
        /\ remote = lastOp.remote
        /\ backups = lastOp.backups

FailedDownloadLeavesLocalUntouched ==
    \A n \in SyncNames :
        (DidOn("download", n, {"fail"}) \/ DidOn("replace", n, {"fail", "partial"})) =>
            /\ local[n] = lastOp.local[n]
            /\ OldSnapshotsKept
            /\ DidOn("backup", n, {"ok"}) =>
                  \E i \in NewSnapshots(n) :
                      backups[i].file.content = lastOp.local[n].content

(***************************************************************************)
(* C9: in an iteration of the loop at which the process guard reports the  *)
(* process running no sync is started, neither by a change event nor by    *)
(* the timer; at which it reports the process not running, an accepted     *)
(* change event and a firing of the timer start their sync.                *)
(***************************************************************************)
GuardPausesAndReleases ==
    loopOp.kind \in {"event", "timer"} =>
        /\ loopOp.running => ~loopOp.started
        /\ (~loopOp.running /\ (loopOp.kind = "timer" \/ loopOp.accepted)) =>
              loopOp.started

(***************************************************************************)
(* C10: a firing of the timer at which the process is not running (an      *)
(* empty process name counts as not running) runs a reconciliation pass,   *)
(* the step over the local files before the step over the objects.         *)
(***************************************************************************)
PeriodicPassWhenNotRunning ==
    (loopOp.kind = "timer" /\ ~loopOp.running) =>
        /\ loopOp.started
        /\ lastOp.act = "pass"
        /\ Tried("readdir")
        /\ \A i, j \in DOMAIN lastOp.log :
              (lastOp.log[i].op = "list" /\ lastOp.log[j].op = "readdir") => j < i

(***************************************************************************)
(* The last full reconciliation pass.                                      *)
(***************************************************************************)
IsPass == lastOp.act = "pass"

\* no step of the last operation failed
NoFailure ==
    \A i \in DOMAIN lastOp.log : lastOp.log[i].res \notin {"fail", "partial", "error"}

Abs(x) == IF x < 0 THEN 0 - x ELSE x

\* the file n is on both sides, with modification times within the tolerance
OnBothSides(n) ==
    /\ local[n].exists
    /\ remote[n].exists
    /\ Abs(extractModTime(remote[n]).ns - local[n].mtime) <= timeTolerance

\* the content that the pass has to give to both copies of n: that of the
\* only copy, or of the copy newer beyond the tolerance; -1 when both copies
\* exist within the tolerance of each other
WinningContent(n) ==
    LET l0 == lastOp.local[n]
        r0 == lastOp.remote[n]
        diff == extractModTime(r0).ns - l0.mtime
    IN  IF ~r0.exists THEN l0.content
        ELSE IF ~l0.exists THEN r0.content
        ELSE IF diff > timeTolerance THEN r0.content
        ELSE IF diff < 0 - timeTolerance THEN l0.content
        ELSE -1

(***************************************************************************)
(* C11: after a full reconciliation pass in which no step failed, every    *)
(* candidate file that was on either side is on both sides with            *)
(* modification times within the tolerance; when it was on one side only,  *)
(* or one copy was newer beyond the tolerance, both copies have the        *)
(* content of that copy; two copies within the tolerance of each other     *)
(* are left as they were, whatever their contents.                         *)
(***************************************************************************)
PassReconcilesBeyondTolerance ==
    (IsPass /\ NoFailure) =>
        \A n \in SyncNames :
            (lastOp.local[n].exists \/ lastOp.remote[n].exists) =>
                /\ OnBothSides(n)
                /\ IF WinningContent(n) # -1
                   THEN /\ local[n].content = WinningContent(n)
                        /\ remote[n].content = WinningContent(n)
                   ELSE /\ local[n] = lastOp.local[n]
                        /\ remote[n] = lastOp.remote[n]

\* a pass without failure has uploaded one file and downloaded the other
PassWitnessBothDirections ==
    /\ IsPass
    /\ NoFailure
    /\ Did("upload", "ok")
    /\ Did("replace", "ok")

\* C11 as stated: after such a pass every candidate file has identical
\* content on both sides
PassReconcilesEveryFile ==
    (IsPass /\ NoFailure) =>
        \A n \in SyncNames :
            (lastOp.local[n].exists \/ lastOp.remote[n].exists) =>
                /\ OnBothSides(n)
                /\ local[n].content = remote[n].content

(***************************************************************************)
(* The round trip: a file is uploaded, and the object is downloaded to a   *)
(* path where no file is.                                                  *)
(***************************************************************************)
\* S3Client.Upload of the file name
RoundTripUpload(name) ==
    /\ local[name].exists
    /\ \E F \in FaultPlans({"local"}, {name}) :
          Commit(Upload(World(local, remote, backups, tmp), F, "local", name,
                        name, now),
                 "syncer", "Upload", name)
    /\ UNCHANGED envSteps
    /\ UNCHANGED wvars
    /\ UNCHANGED lvars
    /\ UNCHANGED pvars

\* Syncer.downloadAndReplace of the object objectName to the path of name,
\* with the modification time that S3Client.Stat reports
RoundTripDownload(objectName, name) ==
    /\ remote[objectName].exists
    /\ ~local[name].exists
    /\ \E F \in FaultPlans({"remote"}, {objectName, name}) :
          LET w == World(local, remote, backups, tmp)
              cloudInfo == Stat(w, F, "remote", objectName)
          IN  /\ cloudInfo.res = "ok"
              /\ Commit(downloadAndReplace(w, F, "remote", objectName, name,
                                           cloudInfo.ModTime, now),
                        "syncer", "Download", name)
    /\ UNCHANGED envSteps
    /\ UNCHANGED wvars
    /\ UNCHANGED lvars
    /\ UNCHANGED pvars

RoundTripTick ==
    /\ Tick(MaxStamp + MaxWatchTime)
    /\ UNCHANGED <<lastEventTime, verdict, lastAccept>>
    /\ UNCHANGED svars
    /\ UNCHANGED lvars
    /\ UNCHANGED pvars

RoundTripInit ==
    /\ now = MaxStamp + 1
    /\ lastEventTime = [p \in EventPaths |-> -1]
    /\ verdict = NoVerdict
    /\ lastAccept = [p \in EventPaths |-> -1]
    /\ \E c \in Contents, m \in 0..MaxStamp :
          local = (GameSav :> File(c, m)) @@ (SlotSav :> NoFile)
    /\ remote = [n \in SyncNames |-> NoObject]
    /\ backups = <<>>
    /\ tmp = [x \in TmpNames |-> NoTmp]
    /\ lastOp = NoLast
    /\ replaced = {}
    /\ envSteps = 0
    /\ opSteps = 0
    /\ pc = "start"
    /\ timerStart = 0
    /\ processName = <<>>
    /\ procs = [ok |-> TRUE, names |-> {}]
    /\ loopOp = NoLoopOp
    /\ idleSince = -1
    /\ probe = NoProbe
    /\ boot = NoBoot
    /\ mux = NoMux

RoundTripNext ==
    \/ RoundTripUpload(GameSav)
    \/ RoundTripDownload(GameSav, SlotSav)
    \/ RoundTripTick

SpecRoundTrip == RoundTripInit /\ [][RoundTripNext]_vars

(***************************************************************************)
(* C12: a file that was uploaded and then downloaded to a path where no    *)
(* file was comes back with the content and the modification time of the   *)
(* original, when no step of the download failed: the upload puts the      *)
(* modification time into the Modtime metadata and the download restores   *)
(* it from there.                                                          *)
(***************************************************************************)
RoundTripRestoresFile ==
    /\ (lastOp.act = "Upload" /\ NoFailure) =>
          /\ remote[lastOp.name].content = local[lastOp.name].content
          /\ remote[lastOp.name].meta = FormatInt(local[lastOp.name].mtime)
    /\ (lastOp.act = "Download" /\ NoFailure) =>
          /\ local[SlotSav].exists
          /\ local[SlotSav].content = local[GameSav].content
          /\ local[SlotSav].mtime = local[GameSav].mtime
          /\ backups = <<>>

\* a file with a modification time of two digits has made the round trip,
\* and was written at a later time than the original
RoundTripWitness ==
    /\ lastOp.act = "Download"
    /\ NoFailure
    /\ local[GameSav].mtime >= 10
    /\ now > remote[GameSav].lastModified
    /\ local[SlotSav].mtime = local[GameSav].mtime

(***************************************************************************)
(* C13: the watcher accepts an event only if its operation includes a      *)
(* write or a create, the base name of its path ends in ".sav" and is not  *)
(* the settings file, and the path lies directly in the watched            *)
(* directory.  An event that only removes, renames or changes the mode, a  *)
(* file that is no candidate and a file of a subdirectory are rejected     *)
(* whether or not the path was accepted before.                            *)
(***************************************************************************)
WatcherAcceptsOnlyCandidateWrites ==
    LET p == verdict.Name
        inRoot == Len(p) = 2 /\ p[1] = WDir
        candidate == /\ p # <<>>
                     /\ p[Len(p)][Len(p[Len(p)])] = ".sav"
                     /\ p[Len(p)] # SettingsSav
    IN  verdict.called =>
           /\ verdict.result =>
                 /\ ("Write" \in verdict.Op \/ "Create" \in verdict.Op)
                 /\ candidate
                 /\ inRoot
           /\ (verdict.Op \subseteq {"Remove", "Rename", "Chmod"}) =>
                 ~verdict.result
           /\ (~candidate \/ ~inRoot) => ~verdict.result

\* an event with a write among its operations is accepted for a candidate in
\* the watched directory
WatcherAcceptsWitness ==
    /\ verdict.called
    /\ verdict.result
    /\ verdict.Op = {"Write", "Chmod"}
    /\ verdict.Name = <<WDir, SlotSav>>
    /\ lastAccept[<<WDir, BackupName, StampName, GameSav>>] = -1
    /\ lastAccept[<<WDir, SettingsSav>>] = -1

(***************************************************************************)
(* The candidate predicate, asked for a path by each of its three copies.  *)
(***************************************************************************)
ProbeDirs ==
    { <<>>, <<WDir>>, <<WDir, BackupName>>, <<WDir, BackupName, StampName>>,
      <<<<"other">>>>, <<<<".">>, WDir>> }

ProbeNames ==
    { GameSav, SlotSav, SettingsSav, GameTxt, <<".sav">>, <<"sav">>,
      <<"game", ".sav", ".bak">>, <<"game", ".SAV">>,
      <<"my", "EnhancedInputUserSettings", ".sav">>,
      <<"EnhancedInputUserSettings", ".sav", ".sav">> }

ProbePaths == { d \o <<n>> : d \in ProbeDirs, n \in ProbeNames }

CandidateAsk ==
    /\ ~probe.asked
    /\ probe' = [asked |-> TRUE, path |-> probe.path,
                 watcher |-> shouldSyncFile(probe.path),
                 syncer |-> syncShouldSyncFile(probe.path),
                 main |-> mainShouldSyncFile(probe.path)]
    /\ UNCHANGED <<boot, mux>>
    /\ UNCHANGED wvars
    /\ UNCHANGED svars
    /\ UNCHANGED lvars

CandidateInit ==
    /\ now = 0
    /\ lastEventTime = [p \in EventPaths |-> -1]
    /\ verdict = NoVerdict
    /\ lastAccept = [p \in EventPaths |-> -1]
    /\ local = [n \in SyncNames |-> NoFile]
    /\ remote = [n \in SyncNames |-> NoObject]
    /\ backups = <<>>
    /\ tmp = [x \in TmpNames |-> NoTmp]
    /\ lastOp = NoLast
    /\ replaced = {}
    /\ envSteps = 0
    /\ opSteps = 0
    /\ pc = "start"
    /\ timerStart = 0
    /\ processName = <<>>
    /\ procs = [ok |-> TRUE, names |-> {}]
    /\ loopOp = NoLoopOp
    /\ idleSince = -1
    /\ \E p \in ProbePaths : probe = [NoProbe EXCEPT !.path = p]
    /\ boot = NoBoot
    /\ mux = NoMux

CandidateNext == CandidateAsk

SpecCandidate == CandidateInit /\ [][CandidateNext]_vars

(***************************************************************************)
(* C14: the candidate predicate is true exactly when the last element of   *)
(* the path ends in ".sav" and is not "EnhancedInputUserSettings.sav";     *)
(* the directory of the path has no influence, and the copies of the       *)
(* watcher, of the syncer and of main.go give the same answer.             *)
(***************************************************************************)
CandidateIffSavAndNotSettings ==
    probe.asked =>
        LET name == probe.path[Len(probe.path)]
            expected == name[Len(name)] = ".sav" /\ name # SettingsSav
        IN  /\ probe.watcher = expected
            /\ probe.syncer = expected
            /\ probe.main = expected
            /\ \A d \in ProbeDirs :
                  /\ shouldSyncFile(d \o <<name>>) = expected
                  /\ syncShouldSyncFile(d \o <<name>>) = expected
                  /\ mainShouldSyncFile(d \o <<name>>) = expected

\* the settings file is refused and a save file is taken in a directory that
\* is not the watched one
CandidateWitness ==
    /\ probe.asked
    /\ probe.path = <<WDir, BackupName, <<"my", "EnhancedInputUserSettings", ".sav">>>>
    /\ probe.watcher /\ probe.syncer /\ probe.main
    /\ ~mainShouldSyncFile(<<WDir, BackupName, SettingsSav>>)

(***************************************************************************)
(* C15: the pass that runs at startup ensures the bucket first, then runs  *)
(* the local step, then the remote step: the first step recorded of every  *)
(* pass is the bucket check, the directory is read next, and the bucket is *)
(* listed only after that.                                                 *)
(***************************************************************************)
PassEnsuresBucketFirst ==
    IsPass =>
        LET steps == lastOp.log
        IN  /\ steps # <<>>
            /\ steps[1].op = "ensure"
            /\ \A i \in 2..Len(steps) : steps[i].op # "ensure"
            /\ Len(steps) >= 2 => steps[2].op = "readdir"
            /\ \A i \in 1..Len(steps) : steps[i].op = "list" => i > 2

(***************************************************************************)
(* C16: after the cancellation signal the loop exits cleanly: the process  *)
(* is still in its loop, finishing what it had begun, or it has left the   *)
(* loop through the return of the cancellation case; it is never ended in  *)
(* place.                                                                  *)
(***************************************************************************)
SignalExitsThroughLoop ==
    loopOp.kind = "signal" => pc \in {"select", "exited"}

(***************************************************************************)
(* The configuration: LoadFromFlags, Config.Validate and the start of the  *)
(* program.  A string is a sequence of tokens, a path a sequence of        *)
(* elements; the file system tells for a path whether it is a directory, a *)
(* file, or nothing.                                                       *)
(***************************************************************************)
MissingPath == <<"missing">>

FilePath == <<"save.txt">>

DirPath == <<"saves">>

AppData == <<"AppData">>

EndpointFlags == { <<>>, <<"localhost:9000">>, <<"https://", "s3.example">> }

TextFlags == { <<>>, <<"x">> }

WatchPathFlags == { <<>>, MissingPath, FilePath, DirPath }

\* getDefaultWatchPath
getDefaultWatchPath(localAppData) ==
    IF localAppData = <<>>
    THEN [err |-> "LOCALAPPDATA environment variable is not set", path |-> <<>>]
    ELSE [err |-> "", path |-> localAppData \o <<"RSDragonwilds", "Saved", "SaveGames">>]

\* os.Stat of a path: the default watch path is what defaultKind says
StatKind(path, defaultKind) ==
    IF path = DirPath THEN "dir"
    ELSE IF path = FilePath THEN "file"
    ELSE IF path = getDefaultWatchPath(AppData).path THEN defaultKind
    ELSE "none"

\* LoadFromFlags, after flag.Parse
LoadFromFlags(args, localAppData) ==
    LET def == getDefaultWatchPath(localAppData)
        WatchPath == IF args.WatchPath = <<>> THEN def.path ELSE args.WatchPath
        BackupDir == IF args.BackupDir = <<>> THEN WatchPath \o <<"Backup">>
                     ELSE args.BackupDir
    IN  IF \/ args.Endpoint = <<>>
           \/ args.AccessKey = <<>>
           \/ args.SecretKey = <<>>
           \/ args.BucketName = <<>>
        THEN [err |-> "missing required arguments", cfg |-> <<>>]
        ELSE IF args.WatchPath = <<>> /\ def.err # ""
        THEN [err |-> "failed to determine default watch path", cfg |-> <<>>]
        ELSE [err |-> "",
              cfg |-> [WatchPath |-> WatchPath, BackupDir |-> BackupDir,
                       Endpoint |-> args.Endpoint,
                       AccessKey |-> args.AccessKey,
                       SecretKey |-> args.SecretKey,
                       BucketName |-> args.BucketName,
                       UseSSL |-> Head(args.Endpoint) = "https://"]]

\* Config.Validate
Validate_anyfile(c, defaultKind) ==
    IF c.WatchPath = <<>> THEN "watch path cannot be empty"
    ELSE IF StatKind(c.WatchPath, defaultKind) = "none"
    THEN "watch path does not exist"
    ELSE ""

Validate(c, defaultKind) ==
    IF c.WatchPath = <<>> THEN "watch path cannot be empty"
    ELSE IF StatKind(c.WatchPath, defaultKind) = "none"
    THEN "watch path does not exist"
    ELSE IF StatKind(c.WatchPath, defaultKind) # "dir"
    THEN "watch path is not a directory"
    ELSE ""

\* the program is started with flags, or a Config is built directly
BootStates ==
    { [stage |-> "args", via |-> "flags", args |-> a, localAppData |-> l,
       defaultKind |-> k, cfg |-> <<>>, err |-> "", failedIn |-> "none"] :
         a \in [Endpoint : EndpointFlags, AccessKey : TextFlags,
                SecretKey : TextFlags, BucketName : TextFlags,
                WatchPath : WatchPathFlags, BackupDir : TextFlags],
         l \in {<<>>, AppData}, k \in {"none", "file", "dir"} }
    \cup
    { [stage |-> "loaded", via |-> "literal", args |-> <<>>,
       localAppData |-> <<>>, defaultKind |-> "none",
       cfg |-> [WatchPath |-> p], err |-> "", failedIn |-> "none"] :
         p \in WatchPathFlags }

ConfigLoad ==
    /\ boot.stage = "args"
    /\ LET r == LoadFromFlags(boot.args, boot.localAppData)
       IN  boot' = IF r.err # ""
                   THEN [boot EXCEPT !.stage = "failed", !.err = r.err,
                                     !.failedIn = "LoadFromFlags"]
                   ELSE [boot EXCEPT !.stage = "loaded", !.cfg = r.cfg]
    /\ UNCHANGED <<probe, mux>>
    /\ UNCHANGED wvars
    /\ UNCHANGED svars
    /\ UNCHANGED lvars

ConfigValidate ==
    /\ boot.stage = "loaded"
    /\ LET err == Validate(boot.cfg, boot.defaultKind)
       IN  boot' = IF err # ""
                   THEN [boot EXCEPT !.stage = "failed", !.err = err,
                                     !.failedIn = "Validate"]
                   ELSE [boot EXCEPT !.stage = "validated"]
    /\ UNCHANGED <<probe, mux>>
    /\ UNCHANGED wvars
    /\ UNCHANGED svars
    /\ UNCHANGED lvars

\* the start of the program goes on to the initial sync once the
\* configuration has been loaded and validated without error
StartupProceeds ==
    /\ boot.stage = "validated"
    /\ boot.via = "flags"
    /\ boot' = [boot EXCEPT !.stage = "syncing"]
    /\ UNCHANGED <<probe, mux>>
    /\ UNCHANGED wvars
    /\ UNCHANGED svars
    /\ UNCHANGED lvars

ConfigInit ==
    /\ now = 0
    /\ lastEventTime = [p \in EventPaths |-> -1]
    /\ verdict = NoVerdict
    /\ lastAccept = [p \in EventPaths |-> -1]
    /\ local = [n \in SyncNames |-> NoFile]
    /\ remote = [n \in SyncNames |-> NoObject]
    /\ backups = <<>>
    /\ tmp = [x \in TmpNames |-> NoTmp]
    /\ lastOp = NoLast
    /\ replaced = {}
    /\ envSteps = 0
    /\ opSteps = 0
    /\ pc = "start"
    /\ timerStart = 0
    /\ processName = <<>>
    /\ procs = [ok |-> TRUE, names |-> {}]
    /\ loopOp = NoLoopOp
    /\ idleSince = -1
    /\ probe = NoProbe
    /\ boot \in BootStates
    /\ mux = NoMux

ConfigNext ==
    \/ ConfigLoad
    \/ ConfigValidate
    \/ StartupProceeds

SpecConfig == ConfigInit /\ [][ConfigNext]_vars

(***************************************************************************)
(* C17: LoadFromFlags fails when the endpoint, the access key, the secret  *)
(* key or the bucket name is empty; Validate fails when the watch path is  *)
(* empty, does not exist or is not a directory; and the start of the       *)
(* program reaches the sync only with all four present and a watch path    *)
(* that is a directory.                                                    *)
(***************************************************************************)
ConfigErrorsStopStartup ==
    LET missing == \/ boot.args.Endpoint = <<>>
                   \/ boot.args.AccessKey = <<>>
                   \/ boot.args.SecretKey = <<>>
                   \/ boot.args.BucketName = <<>>
        badPath == \/ boot.cfg.WatchPath = <<>>
                   \/ boot.cfg.WatchPath = MissingPath
                   \/ boot.cfg.WatchPath = FilePath
                   \/ /\ boot.cfg.WatchPath = AppData \o <<"RSDragonwilds", "Saved", "SaveGames">>
                      /\ boot.defaultKind # "dir"
    IN  /\ (boot.via = "flags" /\ boot.stage # "args" /\ missing) =>
              boot.stage = "failed" /\ boot.failedIn = "LoadFromFlags"
        /\ (boot.stage \in {"validated", "syncing"} \/ boot.failedIn = "Validate") =>
              (badPath <=> boot.stage = "failed")
        /\ boot.stage = "syncing" => ~missing /\ ~badPath

\* the start with an https endpoint fails in Validate for a watch path that is
\* a file
ConfigWitness ==
    /\ boot.via = "flags"
    /\ boot.stage = "failed"
    /\ boot.failedIn = "Validate"
    /\ boot.cfg.WatchPath = FilePath
    /\ boot.cfg.UseSSL

\* no step of the last operation that concerns the file n failed
NoFailureOn(n) ==
    \A i \in DOMAIN lastOp.log :
        lastOp.log[i].name = n =>
            lastOp.log[i].res \notin {"fail", "partial", "error"}

(***************************************************************************)
(* C18: in a pass that got past the bucket check and the reading of the    *)
(* directory, a failure on one file or object does not keep the others     *)
(* from being evaluated: every file none of whose own steps failed, and    *)
(* that was on one side only or newer beyond the tolerance on one side,    *)
(* ends with the content of that copy on both sides.                       *)
(***************************************************************************)
PassContinuesPastFailures ==
    (IsPass /\ ~Did("ensure", "fail") /\ ~Did("readdir", "fail")) =>
        \A n \in SyncNames :
            (/\ NoFailureOn(n)
             /\ lastOp.local[n].exists \/ lastOp.remote[n].exists
             /\ WinningContent(n) # -1) =>
                /\ local[n].exists
                /\ remote[n].exists
                /\ local[n].content = WinningContent(n)
                /\ remote[n].content = WinningContent(n)

(***************************************************************************)
(* C19: while the loop runs with a process name configured and the         *)
(* process is not running, no more than one interval passes without a      *)
(* full pass being started, whatever events and watcher errors arrive in   *)
(* between.                                                                *)
(***************************************************************************)
PeriodicPassNotPostponed ==
    (pc = "select" /\ processName # <<>> /\ idleSince # -1) =>
        now - idleSince <= syncInterval

\* the position of the listing of the bucket among the steps of the last
\* operation: the remote step of a pass is what follows it
ListAt ==
    IF \E i \in DOMAIN lastOp.log : lastOp.log[i].op = "list"
    THEN CHOOSE i \in DOMAIN lastOp.log : lastOp.log[i].op = "list"
    ELSE Len(lastOp.log) + 1

\* the local step has uploaded the file n, or replaced it by a download
LocalStepTransferred(n) ==
    \E i \in 1..(ListAt - 1) :
        /\ lastOp.log[i].name = n
        /\ lastOp.log[i].op \in {"upload", "replace"}
        /\ lastOp.log[i].res = "ok"

\* the remote step has begun a backup or a transfer of the file n
RemoteStepTouched(n) ==
    \E j \in (ListAt + 1)..Len(lastOp.log) :
        /\ lastOp.log[j].name = n
        /\ lastOp.log[j].op \in {"mkdir", "backup", "upload", "download", "replace"}

\* the remote step has not uploaded anything
RemoteStepUploadsNothing ==
    \A j \in (ListAt + 1)..Len(lastOp.log) : lastOp.log[j].op # "upload"

(***************************************************************************)
(* C20: in a full pass the remote step uploads nothing, and a file that    *)
(* the local step has uploaded or downloaded is neither transferred nor    *)
(* backed up again by the remote step.                                     *)
(***************************************************************************)
RemoteStepNeverRepeats ==
    IsPass =>
        /\ RemoteStepUploadsNothing
        /\ \A n \in SyncNames : LocalStepTransferred(n) => ~RemoteStepTouched(n)

FailedOperationRetriedByTimer ==
    (pc = "select" /\ loopOp.kind = "timer" /\ ~loopOp.running) =>
        /\ (~loopOp.started /\ (Did("upload", "fail") \/ Did("download", "fail"))) =>
              \A n \in SyncNames :
                  (local[n].exists \/ remote[n].exists) => OnBothSides(n)
        /\ (loopOp.started /\ NoFailure) =>
              \A n \in SyncNames :
                  (lastOp.local[n].exists \/ lastOp.remote[n].exists) =>
                      OnBothSides(n)

(***************************************************************************)
(* C23: every backup creates a new snapshot directory, also one that is    *)
(* requested within the microsecond of an existing snapshot; the           *)
(* snapshots have distinct names, and the snapshots that existed before a  *)
(* sync action are there after it, each with the file it had.              *)
(***************************************************************************)
EveryBackupCreatesNewSnapshot ==
    /\ \A n \in SyncNames : DidOn("clock", n, {"same"}) => NewSnapshots(n) # {}
    /\ \A i, j \in 1..Len(backups) : backups[i].stamp = backups[j].stamp => i = j
    /\ lastOp.act \notin {"none", "env"} => OldSnapshotsKept

(***************************************************************************)
(* The select statement of main and its channels.  What arrives is         *)
(* numbered in the order of arrival.  While a handler runs, what arrives   *)
(* waits on its channel; a select statement that finds several channels    *)
(* ready takes one of them, whichever; one that finds none ready blocks,   *)
(* and takes what arrives first.  The timer is created when the select     *)
(* statement is entered, so it expires only while the loop waits.          *)
(***************************************************************************)
Streams == {"Events", "Errors"}

\* a receive from a channel: the oldest element
Receive_newest(q) == [item |-> q[Len(q)], rest |-> SubSeq(q, 1, Len(q) - 1)]

Receive(q) == [item |-> Head(q), rest |-> Tail(q)]

Handled(stream, id) ==
    [mux EXCEPT !.handled = Append(@, [stream |-> stream, id |-> id])]

\* an event or an error is sent by the watcher
ChannelSend(stream) ==
    /\ mux.next <= MaxArrivals
    /\ mux' = IF mux.at = "blocked"
              THEN [Handled(stream, mux.next) EXCEPT !.next = @ + 1,
                                                     !.at = "handler"]
              ELSE [mux EXCEPT ![stream] = Append(@, mux.next), !.next = @ + 1]
    /\ UNCHANGED <<probe, boot>>
    /\ UNCHANGED wvars
    /\ UNCHANGED svars
    /\ UNCHANGED lvars

\* case <-time.After(...), taken by a select statement that waits
TimerExpires ==
    /\ mux.at = "blocked"
    /\ mux.next <= MaxArrivals
    /\ mux' = [Handled("timer", mux.next) EXCEPT !.next = @ + 1, !.at = "handler"]
    /\ UNCHANGED <<probe, boot>>
    /\ UNCHANGED wvars
    /\ UNCHANGED svars
    /\ UNCHANGED lvars

\* the handler has returned and the select statement finds the channel of
\* stream ready
SelectReady(stream) ==
    /\ mux.at = "handler"
    /\ mux[stream] # <<>>
    /\ LET r == Receive(mux[stream])
       IN  mux' = [Handled(stream, r.item) EXCEPT ![stream] = r.rest]
    /\ UNCHANGED <<probe, boot>>
    /\ UNCHANGED wvars
    /\ UNCHANGED svars
    /\ UNCHANGED lvars

\* the handler has returned and the select statement finds no channel ready
SelectBlocks ==
    /\ mux.at = "handler"
    /\ \A stream \in Streams : mux[stream] = <<>>
    /\ mux' = [mux EXCEPT !.at = "blocked"]
    /\ UNCHANGED <<probe, boot>>
    /\ UNCHANGED wvars
    /\ UNCHANGED svars
    /\ UNCHANGED lvars

\* the initial sync runs, nothing has arrived
SelectInit ==
    /\ now = 0
    /\ lastEventTime = [p \in EventPaths |-> -1]
    /\ verdict = NoVerdict
    /\ lastAccept = [p \in EventPaths |-> -1]
    /\ local = [n \in SyncNames |-> NoFile]
    /\ remote = [n \in SyncNames |-> NoObject]
    /\ backups = <<>>
    /\ tmp = [x \in TmpNames |-> NoTmp]
    /\ lastOp = NoLast
    /\ replaced = {}
    /\ envSteps = 0
    /\ opSteps = 0
    /\ pc = "start"
    /\ timerStart = 0
    /\ processName = <<>>
    /\ procs = [ok |-> TRUE, names |-> {}]
    /\ loopOp = NoLoopOp
    /\ idleSince = -1
    /\ probe = NoProbe
    /\ boot = NoBoot
    /\ mux = [at |-> "handler", Events |-> <<>>, Errors |-> <<>>, next |-> 1,
              handled |-> <<>>]

SelectNext ==
    \/ \E stream \in Streams : ChannelSend(stream)
    \/ TimerExpires
    \/ \E stream \in Streams : SelectReady(stream)
    \/ SelectBlocks

SpecSelect == SelectInit /\ [][SelectNext]_vars

(***************************************************************************)
(* C24: what arrives is handled one at a time, each arrival at most once   *)
(* and only after it has left its channel, and what arrived on one stream  *)
(* is handled in the order in which it arrived there; between streams no   *)
(* order is kept.                                                          *)
(***************************************************************************)
SelectKeepsStreamOrder ==
    LET h == mux.handled
    IN  /\ \A i, j \in 1..Len(h) :
              (i < j /\ h[i].stream = h[j].stream) => h[i].id < h[j].id
        /\ \A i, j \in 1..Len(h) : h[i].id = h[j].id => i = j
        /\ \A i \in 1..Len(h), stream \in Streams :
              \A k \in 1..Len(mux[stream]) : mux[stream][k] # h[i].id

\* two events were handled in their order, and an error that had arrived
\* before them was handled after one of them
SelectWitness ==
    LET h == mux.handled
    IN  \E i, j, k \in 1..Len(h) :
           /\ i < j
           /\ h[i].stream = "Events"
           /\ h[j].stream = "Events"
           /\ h[k].stream = "Errors"
           /\ i < k
           /\ h[k].id < h[i].id

\* C24 as stated: nothing that arrived earlier is handled after something
\* that arrived later, whatever the streams
SelectKeepsArrivalOrder ==
    \A i, j \in 1..Len(mux.handled) :
        i < j => mux.handled[i].id < mux.handled[j].id

(***************************************************************************)
(* C25: a SyncFile that finds the remote object and a time difference      *)
(* within the tolerance returns success, transfers nothing, and leaves     *)
(* the local files (content and modification time), the remote objects     *)
(* and the backup directory as they were.                                  *)
(***************************************************************************)
NoOpChangesNothing ==
    (/\ IsSyncFile
     /\ PreLocal.exists
     /\ Did("stat", "ok")
     /\ extractModTime(PreRemote).ns - PreLocal.mtime <= timeTolerance
     /\ PreLocal.mtime - extractModTime(PreRemote).ns <= timeTolerance)
    => /\ ~lastOp.err
       /\ \A i \in DOMAIN lastOp.log : lastOp.log[i].op \in {"stat", "decide"}
       /\ local = lastOp.local
       /\ remote = lastOp.remote
       /\ backups = lastOp.backups

\* checkCloudAndSync found a local file older by exactly the tolerance, of
\* another content than the object, and left both
NoOpWitness ==
    /\ IsSyncFile
    /\ lastOp.impl = "main"
    /\ PreLocal.exists
    /\ Did("stat", "ok")
    /\ extractModTime(PreRemote).ns - PreLocal.mtime = timeTolerance
    /\ PreLocal.content # PreRemote.content
    /\ ~lastOp.err
    /\ local[lastOp.name] = PreLocal
    /\ remote[lastOp.name] = PreRemote

(***************************************************************************)
(* C26: when a download action has reached the replacement of the local    *)
(* file, whether the replacement succeeded or failed, the temporary file   *)
(* of the action no longer exists afterwards.                              *)
(***************************************************************************)
TempFileRemovedAfterDownload ==
    \A n \in SyncNames :
        DidOn("replace", n, {"ok", "fail", "partial"}) =>
            tmp[<<n, IF lastOp.impl = "main" /\ IsSyncFile
                     THEN ".cloud" ELSE ".download">>] = NoTmp

(***************************************************************************)
(* The modification time reported for a remote object, as a function of    *)
(* the object's metadata: every Modtime text up to MaxMetaLen characters,  *)
(* every native time and location.                                         *)
(***************************************************************************)
MetaChars == {"0", "7", "-", "+", "x"}

MetaTexts == UNION {[1..k -> MetaChars] : k \in 0..MaxMetaLen}

ObjectInfos ==
    {[Object(1, m, lm) EXCEPT !.zone = z] :
        m \in MetaTexts, lm \in 0..InitTime, z \in {"UTC", "Local"}}

\* S3Client.Stat and S3Client.List of the package, StatObject followed by
\* getCloudModTime in main.go, on the same object
ModTimeAsk ==
    /\ ~probe.asked
    /\ probe' = [asked |-> TRUE, stat |-> probe.stat,
                 syncer |-> extractModTime(probe.stat),
                 main |-> getCloudModTime(probe.stat)]
    /\ UNCHANGED <<boot, mux>>
    /\ UNCHANGED wvars
    /\ UNCHANGED svars
    /\ UNCHANGED lvars

ModTimeInit ==
    /\ now = 0
    /\ lastEventTime = [p \in EventPaths |-> -1]
    /\ verdict = NoVerdict
    /\ lastAccept = [p \in EventPaths |-> -1]
    /\ local = [n \in SyncNames |-> NoFile]
    /\ remote = [n \in SyncNames |-> NoObject]
    /\ backups = <<>>
    /\ tmp = [x \in TmpNames |-> NoTmp]
    /\ lastOp = NoLast
    /\ replaced = {}
    /\ envSteps = 0
    /\ opSteps = 0
    /\ pc = "start"
    /\ timerStart = 0
    /\ processName = <<>>
    /\ procs = [ok |-> TRUE, names |-> {}]
    /\ loopOp = NoLoopOp
    /\ idleSince = -1
    /\ \E stat \in ObjectInfos :
          probe = [asked |-> FALSE, stat |-> stat, syncer |-> Unix(0), main |-> Unix(0)]
    /\ boot = NoBoot
    /\ mux = NoMux

ModTimeNext == ModTimeAsk

SpecModTime == ModTimeInit /\ [][ModTimeNext]_vars

\* the text is a decimal integer: an optional sign, then digits only
IsDecimal(s) ==
    LET body == IF s # <<>> /\ Head(s) \in {"+", "-"} THEN Tail(s) ELSE s
    IN  body # <<>> /\ \A i \in 1..Len(body) : IsDigit(body[i])

(***************************************************************************)
(* C27: the reported modification time is the instant the Modtime          *)
(* metadata names when that text is present and a decimal integer, the     *)
(* native last-modified instant otherwise, and it is presented in UTC.     *)
(***************************************************************************)
ModTimePrefersMetadata ==
    probe.asked =>
        \A t \in {probe.syncer, probe.main} :
            /\ t.loc = "UTC"
            /\ t.ns = IF probe.stat.meta # <<>> /\ IsDecimal(probe.stat.meta)
                      THEN ParseInt(probe.stat.meta).val
                      ELSE probe.stat.lastModified

\* Modtime "-7" on an object whose native time is in another location: the
\* instant -7 is reported, in UTC; the native time is not
ModTimeWitness ==
    /\ probe.asked
    /\ probe.stat.meta = <<"-", "7">>
    /\ probe.stat.zone = "Local"
    /\ probe.stat.lastModified = InitTime
    /\ probe.syncer = [ns |-> -7, loc |-> "UTC"]
    /\ probe.main = probe.syncer

(***************************************************************************)
(* The process guard as a function of the configured name and of what      *)
(* the enumeration of the processes returns.                               *)
(***************************************************************************)
GuardChars == {"g", "A", "m", "s"}

GuardNames ==
    ProcessNames \cup UNION {[1..k -> GuardChars] : k \in 0..MaxGuardName}

GuardLists ==
    {[ok |-> TRUE, names |-> ns] : ns \in SUBSET {ExeShell, ExeGame}}
        \cup {[ok |-> FALSE, names |-> {}]}

\* Syncer.IsProcessRunning and isProcessRunning of main.go on the same
\* name and process list
GuardAsk ==
    /\ ~probe.asked
    /\ probe' = [asked |-> TRUE, name |-> probe.name, ps |-> probe.ps,
                 syncer |-> IsProcessRunning(probe.name, probe.ps),
                 main |-> isProcessRunning(probe.name, probe.ps)]
    /\ UNCHANGED <<boot, mux>>
    /\ UNCHANGED wvars
    /\ UNCHANGED svars
    /\ UNCHANGED lvars

GuardInit ==
    /\ now = 0
    /\ lastEventTime = [p \in EventPaths |-> -1]
    /\ verdict = NoVerdict
    /\ lastAccept = [p \in EventPaths |-> -1]
    /\ local = [n \in SyncNames |-> NoFile]
    /\ remote = [n \in SyncNames |-> NoObject]
    /\ backups = <<>>
    /\ tmp = [x \in TmpNames |-> NoTmp]
    /\ lastOp = NoLast
    /\ replaced = {}
    /\ envSteps = 0
    /\ opSteps = 0
    /\ pc = "start"
    /\ timerStart = 0
    /\ processName = <<>>
    /\ procs = [ok |-> TRUE, names |-> {}]
    /\ loopOp = NoLoopOp
    /\ idleSince = -1
    /\ \E name \in GuardNames, ps \in GuardLists :
          probe = [asked |-> FALSE, name |-> name, ps |-> ps,
                   syncer |-> FALSE, main |-> FALSE]
    /\ boot = NoBoot
    /\ mux = NoMux

GuardNext == GuardAsk

SpecGuard == GuardInit /\ [][GuardNext]_vars

\* some listed process has an executable name that contains the configured
\* name, case ignored
MatchesListed(name, ps) ==
    \E exeName \in ps.names :
        \E i \in 1..(Len(exeName) + 1), j \in 0..Len(exeName) :
            ToLower(SubSeq(exeName, i, j)) = ToLower(name)

(***************************************************************************)
(* C28: for a configured, non-empty name the guard reports running iff     *)
(* the process list was obtained and the lower-cased name is a substring   *)
(* of the lower-cased executable name of some listed process; with no      *)
(* name configured the guard of the Syncer reports not running; whenever   *)
(* the process list cannot be obtained the guard reports not running.      *)
(***************************************************************************)
GuardReportsMatchOfConfiguredName ==
    probe.asked =>
        /\ probe.name # <<>> =>
              \A r \in {probe.syncer, probe.main} :
                  r <=> (probe.ps.ok /\ MatchesListed(probe.name, probe.ps))
        /\ probe.name = <<>> => ~probe.syncer
        /\ ~probe.ps.ok => (~probe.syncer /\ ~probe.main)

\* the name "Am" is found in the executable name "Game" next to a shell
GuardWitness ==
    /\ probe.asked
    /\ probe.name = <<"A", "m">>
    /\ probe.ps = [ok |-> TRUE, names |-> {ExeShell, ExeGame}]
    /\ probe.syncer
    /\ probe.main

\* C28 as stated: running iff the lower-cased name is a substring of the
\* lower-cased name of a listed process, whatever the configured name
GuardReportsSubstringMatch ==
    probe.asked =>
        \A r \in {probe.syncer, probe.main} :
            r <=> (probe.ps.ok /\ MatchesListed(probe.name, probe.ps))

(***************************************************************************)
(* C30: the debounce map changes only in a step that accepts an event,     *)
(* and then only in the entry of that event's path, which becomes the      *)
(* time of the step; an event rejected for its operation, its name, its    *)
(* directory or the cooldown leaves every entry as it was.                 *)
(***************************************************************************)
DebounceMapChangesOnlyOnAccept ==
    [][LET p == verdict'.Name
           inRoot == Len(p) = 2 /\ p[1] = WDir
           candidate == /\ p # <<>>
                        /\ p[Len(p)][Len(p[Len(p)])] = ".sav"
                        /\ p[Len(p)] # SettingsSav
           cooling == /\ lastEventTime[p] # -1
                      /\ now - lastEventTime[p] <= eventCooldown
           rejected == \/ verdict'.Op \cap {"Write", "Create"} = {}
                       \/ ~candidate
                       \/ ~inRoot
                       \/ cooling
       IN  /\ \A q \in EventPaths :
                 lastEventTime'[q] # lastEventTime[q] =>
                    /\ lastEventTime'[q] = now
                    /\ \A r \in EventPaths \ {q} : lastEventTime'[r] = lastEventTime[r]
                    /\ \/ /\ verdict'.called
                          /\ verdict'.result
                          /\ verdict'.Name = q
                          /\ verdict'.at = now
                       \/ /\ loopOp'.kind = "event"
                          /\ loopOp'.accepted
                          /\ lastOp'.act = "SyncFile"
                          /\ lastOp'.name = Base(q)
           /\ (verdict' # verdict /\ rejected) => lastEventTime' = lastEventTime
           /\ (loopOp' # loopOp /\ loopOp'.kind = "event" /\ ~loopOp'.accepted)
                 => lastEventTime' = lastEventTime]_vars

\* an event for a path in its cooldown was rejected and the entry of the
\* path still holds the time of the accepted event; another path has an
\* entry of its own
DebounceMapWitness ==
    /\ verdict.called
    /\ ~verdict.result
    /\ verdict.prior # -1
    /\ verdict.at > verdict.prior
    /\ lastEventTime[verdict.Name] = verdict.prior
    /\ \E q \in EventPaths \ {verdict.Name} :
          lastEventTime[q] # -1 /\ lastEventTime[q] # verdict.prior

(***************************************************************************)
(* The loop of main.go while the monitored process runs: the application   *)
(* writes a save file, and the trigger of the write is dropped.            *)
(***************************************************************************)
\* the application writes the file name, and the loop takes the write event
\* from watcher.Events while the process is running: "Sync paused", continue
PausedChange(name, c) ==
    /\ processName # <<>> /\ isProcessRunning(processName, procs)
    /\ lastOp.act = "initial"
    /\ Iteration("event", FALSE, FALSE)
    /\ local' = [local EXCEPT ![name] = File(c, now)]
    /\ lastOp' = [NoLast EXCEPT !.impl = "main", !.act = "env", !.name = name]
    /\ UNCHANGED <<lastEventTime, remote, backups, tmp, replaced>>

\* the events that follow: for the file written and for another one, a write
\* or none
PausedEvents ==
    [Name : {<<WDir, GameSav>>, <<WDir, SlotSav>>}, Op : {{"Remove"}, {"Write", "Chmod"}}]

\* a process name is configured and the process is running when the
\* program starts
PausedInit ==
    /\ now = InitTime + 1
    /\ lastEventTime = [p \in EventPaths |-> -1]
    /\ verdict = NoVerdict
    /\ lastAccept = [p \in EventPaths |-> -1]
    /\ \E o \in {NoObject, Object(1, FormatInt(0), InitTime)} :
          /\ local = (GameSav :> File(1, 0)) @@ (SlotSav :> NoFile)
          /\ remote = (GameSav :> o) @@ (SlotSav :> NoObject)
    /\ backups = <<>>
    /\ tmp = [x \in TmpNames |-> NoTmp]
    /\ lastOp = NoLast
    /\ replaced = {}
    /\ envSteps = 0
    /\ opSteps = 0
    /\ pc = "start"
    /\ timerStart = 0
    /\ processName = <<"g", "A", "M">>
    /\ procs = [ok |-> TRUE, names |-> {ExeShell, ExeGame}]
    /\ loopOp = NoLoopOp
    /\ idleSince = -1
    /\ probe = NoProbe
    /\ boot = NoBoot
    /\ mux = NoMux

PausedNext ==
    \/ MainStart
    \/ PausedChange(GameSav, MaxContent)
    \/ \E event \in PausedEvents : HandleEvent(event)
    \/ HandleError
    \/ TimerFire
    \/ LoopTick
    \/ \E ps \in ProcLists : ProcChange(ps)

SpecPaused == PausedInit /\ [][PausedNext]_vars

SyncActionTouchesOnlyItsFile ==
    [][(lastOp'.act = "SyncFile" /\ opSteps' = opSteps + 1) =>
          LET n == lastOp'.name
              uploads == \E i \in DOMAIN lastOp'.log : lastOp'.log[i].op = "upload"
              uploaded == \E i \in DOMAIN lastOp'.log :
                             lastOp'.log[i].op = "upload" /\ lastOp'.log[i].res = "ok"
          IN  /\ \A m \in SyncNames \ {n} :
                    local'[m] = local[m] /\ remote'[m] = remote[m]
              /\ \A x \in TmpNames : x[1] # n => tmp'[x] = tmp[x]
              /\ Len(backups') \in {Len(backups), Len(backups) + 1}
              /\ SubSeq(backups', 1, Len(backups)) = backups
              /\ Len(backups') > Len(backups) => backups'[Len(backups')].name = n
              /\ uploads => local' = local
              /\ ~uploaded => remote' = remote]_vars

\* slot.sav was uploaded with a backup while game.sav, out of step with its
\* object, stayed as it was on both sides
SyncActionWitness ==
    /\ IsSyncFile
    /\ lastOp.name = SlotSav
    /\ Did("upload", "ok")
    /\ Did("backup", "ok")
    /\ remote[SlotSav] # lastOp.remote[SlotSav]
    /\ local = lastOp.local
    /\ lastOp.local[GameSav].exists
    /\ lastOp.remote[GameSav].exists
    /\ lastOp.remote[GameSav].content # lastOp.local[GameSav].content
    /\ remote[GameSav] = lastOp.remote[GameSav]

(***************************************************************************)
(* The file a backup writes, seen by everything that could take it up:     *)
(* the watcher, the loop of main.go, the scan of the watched directory and *)
(* the downloads.  The backup root is the default or a -backup-dir.        *)
(***************************************************************************)
BackupDirFlags ==
    { <<>>, <<WDir>>, <<WDir, BackupName>>, <<WDir, BackupName, <<>>>>,
      <<WDir, <<"saves">>>>, <<<<"other">>>> }

\* LoadFromFlags: the backup directory when none is given
BackupDirOf(flag) == IF flag = <<>> THEN Join(watchPath, BackupName) ELSE flag

\* createTimestampedBackupDir and createBackup: the path of the copy
BackupFileOf(backupDir, filePath) ==
    LET backupPath == Join(backupDir, StampName)
    IN  Join(backupPath, Base(filePath))

\* os.ReadDir(dir): the entry through which the path is reached, if any
ReadDirEntry(dir, path) ==
    LET d == Clean(dir)
    IN  IF Len(path) > Len(d) /\ SubSeq(path, 1, Len(d)) = d
        THEN [found |-> TRUE, Name |-> path[Len(d) + 1],
              IsDir |-> Len(path) > Len(d) + 1]
        ELSE [found |-> FALSE, Name |-> <<>>, IsDir |-> FALSE]

\* the loops of uploadLocalFiles and localAndCloudSync reach a sync of the
\* path
ScanSyncs(path) ==
    LET entry == ReadDirEntry(watchPath, path)
        p == Join(watchPath, entry.Name)
    IN  /\ entry.found
        /\ ~entry.IsDir
        /\ syncShouldSyncFile(p) \/ mainShouldSyncFile(p)
        /\ p = path

\* downloadCloudFiles and syncFromCloud write the path for some object: one
\* the program uploads, or one that has the key of the path itself
DownloadWrites(path) ==
    \E key \in {<<n>> : n \in SyncNames} \cup {path} :
        /\ syncShouldSyncFile(key) \/ mainShouldSyncFile(key)
        /\ Join(watchPath, Base(key)) = path

\* the backup of a file is written, and an event for the copy arrives
SnapshotAsk ==
    /\ ~probe.asked
    /\ LET backupFile == BackupFileOf(BackupDirOf(probe.flag),
                                      Join(watchPath, probe.name))
           event == [Name |-> backupFile, Op |-> probe.Op]
       IN  probe' = [probe EXCEPT
                        !.asked = TRUE,
                        !.backupFile = backupFile,
                        !.watcher = PassesFilters(event),
                        !.main = /\ event.Op \cap {"Write", "Create"} # {}
                                 /\ mainShouldSyncFile(event.Name)
                                 /\ Dir(event.Name) = Clean(watchPath),
                        !.scanned = ScanSyncs(backupFile),
                        !.overwritten = DownloadWrites(backupFile)]
    /\ UNCHANGED <<boot, mux>>
    /\ UNCHANGED wvars
    /\ UNCHANGED svars
    /\ UNCHANGED lvars

SnapshotInit ==
    /\ now = 0
    /\ lastEventTime = [p \in EventPaths |-> -1]
    /\ verdict = NoVerdict
    /\ lastAccept = [p \in EventPaths |-> -1]
    /\ local = [n \in SyncNames |-> NoFile]
    /\ remote = [n \in SyncNames |-> NoObject]
    /\ backups = <<>>
    /\ tmp = [x \in TmpNames |-> NoTmp]
    /\ lastOp = NoLast
    /\ replaced = {}
    /\ envSteps = 0
    /\ opSteps = 0
    /\ pc = "start"
    /\ timerStart = 0
    /\ processName = <<>>
    /\ procs = [ok |-> TRUE, names |-> {}]
    /\ loopOp = NoLoopOp
    /\ idleSince = -1
    /\ \E flag \in BackupDirFlags, name \in SyncNames, Op \in EventOps :
          probe = [asked |-> FALSE, flag |-> flag, name |-> name, Op |-> Op,
                   backupFile |-> <<>>, watcher |-> FALSE, main |-> FALSE,
                   scanned |-> FALSE, overwritten |-> FALSE]
    /\ boot = NoBoot
    /\ mux = NoMux

SnapshotNext == SnapshotAsk

SpecSnapshot == SnapshotInit /\ [][SnapshotNext]_vars

(***************************************************************************)
(* C32: the copy a backup writes lies in a timestamped subdirectory of the *)
(* backup root; no event for it is accepted as a trigger, the scan of the  *)
(* watched directory does not sync it, and no download writes it.          *)
(***************************************************************************)
SnapshotFilesNeverSynced ==
    probe.asked =>
        /\ Len(probe.backupFile) >= 2
        /\ probe.backupFile[Len(probe.backupFile) - 1] = StampName
        /\ ~probe.watcher
        /\ ~probe.main
        /\ ~probe.scanned
        /\ ~probe.overwritten

\* with the default backup root below the watched directory, a write to the
\* copy of game.sav is taken up by nothing
SnapshotWitness ==
    /\ probe.asked
    /\ probe.flag = <<>>
    /\ probe.Op = {"Write"}
    /\ probe.backupFile = <<WDir, BackupName, StampName, GameSav>>
    /\ ~probe.watcher
    /\ ~probe.main
    /\ ~probe.scanned
    /\ ~probe.overwritten

=============================================================================
